---- MODULE Spec2Model ----
(***************************************************************************)
(* The 2048 rules engine of src/js/2048.js (Board, the four traversal      *)
(* strategies, IdenticalBlockMerger, GameBoardOperation and Game) as a     *)
(* state machine.  A Block is its value (Block.of pools one instance per   *)
(* value), a Point is the pair <<row, column>> (Point.of pools one         *)
(* instance per pair), `undefined` in the block array is Empty.            *)
(* Spec is the Game as its callers drive it, BoardSpec a caller of the     *)
(* Board class holding two boards, SessionSpec the page of src/js/main.js  *)
(* (startGame, the direction commands, reset and the ends of the renders), *)
(* SpawnSpec a caller of spawnBlockWeighted with arrays of its own,        *)
(* ExecuteSpec one execute() of a traversal strategy an iteration at a     *)
(* time, UtilsSpec randomItemWeighted of src/js/utils.js on its own,       *)
(* HistorySpec moves and probes with the operation object each move found, *)
(* DisplaySpec the page with its cells: the CellManager, the DomRecycler   *)
(* and the listeners of the render functions, event by event.              *)
(***************************************************************************)
EXTENDS Integers, Sequences, FiniteSets, TLC

\* ---------------------------------------------------------------- bounds
MaxRows == 4
MaxCols == 4
MaxCells == 4
MaxTotal == 8
MaxShared == 4
MaxRenders == 2
MaxElements == 5
MaxResets == 1

\* ------------------------------------------------------------- constants
Empty == 0
UP == "up"
DOWN == "down"
LEFT == "left"
RIGHT == "right"
Direction == {UP, DOWN, LEFT, RIGHT}
SPAWNED_BLOCKS == {2, 4}
\* the same as the array main.js passes, with its weights
SPAWNED_ITEMS == <<2, 4>>
SPAWNED_WEIGHTS == <<90, 10>>
INITIAL_BLOCK_COUNT == 2

VARIABLES board, operation, listener, call, board2, session, run, display
vars == <<board, operation, listener, call, board2, session, run, display>>

\* ------------------------------------------------------------------ Point
Point(row, column) == <<row, column>>
prow(p) == p[1]
pcolumn(p) == p[2]
move(p, rowDistance, columnDistance) == Point(prow(p) + rowDistance, pcolumn(p) + columnDistance)
moveRow(p, distance) == move(p, distance, 0)
moveColumn(p, distance) == move(p, 0, distance)
NoPoint == Point(-1, -1)

\* ------------------------------------------------------------------ Board
NewBoard(rows, columns) ==
    [rowCount |-> rows, columnCount |-> columns,
     blocks |-> [i \in 1..(rows * columns) |-> Empty], blockCount |-> 0]
getSize(b) == b.rowCount * b.columnCount
isWithinBound(b, row, column) ==
    row >= 0 /\ row < b.rowCount /\ column >= 0 /\ column < b.columnCount
\* mutant: the column is not examined
ensureValidIndicesRowOnly(b, row, column) == ~(row < 0 \/ row >= b.rowCount)
ensureValidIndices(b, row, column) ==
    ~(row < 0 \/ row >= b.rowCount \/ column < 0 \/ column >= b.columnCount)
computeIndex(b, row, column) == row * b.columnCount + column
\* the JS array is 0-based, the sequence 1-based
\* (an index outside the array reads `undefined`)
getBlock(b, row, column) ==
    IF computeIndex(b, row, column) + 1 \in 1..Len(b.blocks)
    THEN b.blocks[computeIndex(b, row, column) + 1] ELSE Empty
\* what blockAt yields when #ensureValidIndices throws
Thrown == -1
blockAt(b, row, column) ==
    IF ensureValidIndices(b, row, column) THEN getBlock(b, row, column) ELSE Thrown
\* mutant: the count is raised for every tile written, also over a tile
setBlockAtCounting(b, row, column, block) ==
    IF blockAt(b, row, column) = Thrown THEN b
    ELSE [b EXCEPT !.blockCount = IF block # Empty THEN b.blockCount + 1 ELSE b.blockCount - 1,
                   !.blocks[computeIndex(b, row, column) + 1] = block]
\* a throwing blockAt ends the call before anything is written
setBlockAt(b, row, column, block) ==
    LET oldBlock == blockAt(b, row, column)
        count == IF oldBlock = Empty /\ block # Empty THEN b.blockCount + 1
                 ELSE IF oldBlock # Empty /\ block = Empty THEN b.blockCount - 1
                 ELSE b.blockCount
    IN IF oldBlock = Thrown THEN b
       ELSE [b EXCEPT !.blockCount = count,
                      !.blocks[computeIndex(b, row, column) + 1] = block]
\* mutant: the cell is emptied without touching the count
removeBlockAtKeepCount(b, row, column) ==
    IF blockAt(b, row, column) = Thrown THEN b
    ELSE [b EXCEPT !.blocks[computeIndex(b, row, column) + 1] = Empty]
removeBlockAt(b, row, column) == setBlockAt(b, row, column, Empty)
\* mutant: the grid is rebuilt as a single row of the same size
clearFlat(b) == NewBoard(1, getSize(b))
clear(b) == [b EXCEPT !.blocks = [i \in 1..getSize(b) |-> Empty], !.blockCount = 0]
copy(other) ==
    [NewBoard(other.rowCount, other.columnCount)
        EXCEPT !.blocks = other.blocks, !.blockCount = other.blockCount]
\* no second Board object exists yet
NoBoard == NewBoard(0, 0)
\* JSON text as the value JSON.parse gives back: a number, or null (what
\* JSON.stringify writes for an `undefined` array element)
JsonNumber(value) == [type |-> "number", value |-> value]
JsonNull == [type |-> "object", value |-> 0]
\* typeof data.values[i]; reading past the end of the array gives undefined
typeOf(values, i) == IF i > Len(values) THEN "undefined" ELSE values[i].type
\* mutant: an `undefined` element is written as the number 0
toJsonZero(b) ==
    [rowCount |-> b.rowCount, columnCount |-> b.columnCount,
     values |-> [i \in 1..Len(b.blocks) |-> JsonNumber(b.blocks[i])]]
toJson(b) ==
    [rowCount |-> b.rowCount, columnCount |-> b.columnCount,
     values |-> [i \in 1..Len(b.blocks) |->
                    IF b.blocks[i] = Empty THEN JsonNull ELSE JsonNumber(b.blocks[i])]]
fromJson(json) ==
    LET instance == NewBoard(json.rowCount, json.columnCount)
        numbers == {i \in 1..getSize(instance) : typeOf(json.values, i) = "number"}
    IN [instance EXCEPT !.blocks = [i \in 1..getSize(instance) |->
                                       IF i \in numbers THEN json.values[i].value
                                       ELSE Empty],
                        !.blockCount = Cardinality(numbers)]
\* mutant: every coordinate is listed, empty or not
getEmptySlotsAll(b) == (0..(b.rowCount - 1)) \X (0..(b.columnCount - 1))
\* row-major, as the nested loops of getEmptySlots
getEmptySlots(b) ==
    {Point(i, j) : i \in 0..(b.rowCount - 1), j \in 0..(b.columnCount - 1)}
        \cap {p \in (0..(b.rowCount - 1)) \X (0..(b.columnCount - 1)) :
                 getBlock(b, p[1], p[2]) = Empty}

\* ------------------------------------------------------------- BlockMove
\* mutant: the record's ends are exchanged
BlockMoveSwapped(from, to, merged) == [from |-> to, to |-> from, merged |-> merged]
BlockMove(from, to, merged) == [from |-> from, to |-> to, merged |-> merged]
\* `null` returned by operate / #moveBlock
Null == BlockMove(NoPoint, NoPoint, FALSE)

\* ------------------------------------------------------------ traversal
BoardTraversalEntry(row, column, isNewRound) ==
    [row |-> row, column |-> column, isNewRound |-> isNewRound]
\* each generator: outer loop o, inner loop i; isNewRound is true for i = 0
\* mutant: UP goes through the grid row by row
UpTraverseRowMajor(rows, columns) ==
    [k \in 1..(rows * columns) |->
        LET o == (k - 1) \div columns
            i == (k - 1) % columns
        IN BoardTraversalEntry(o, i, i = 0)]
\* mutant: isNewRound is true for the first cell of the traversal only
UpTraverseFlagOnce(rows, columns) ==
    [k \in 1..(rows * columns) |->
        LET o == (k - 1) \div rows
            i == (k - 1) % rows
        IN BoardTraversalEntry(i, o, k = 1)]
UpTraverse(rows, columns) ==
    [k \in 1..(rows * columns) |->
        LET o == (k - 1) \div rows
            i == (k - 1) % rows
        IN BoardTraversalEntry(i, o, i = 0)]
\* mutant: DOWN visits the rows of a column in ascending order
DownTraverseAscending(rows, columns) ==
    [k \in 1..(rows * columns) |->
        LET o == (k - 1) \div rows
            i == (k - 1) % rows
        IN BoardTraversalEntry(i, o, i = 0)]
DownTraverse(rows, columns) ==
    [k \in 1..(rows * columns) |->
        LET o == (k - 1) \div rows
            i == (k - 1) % rows
        IN BoardTraversalEntry(rows - 1 - i, o, i = 0)]
LeftTraverse(rows, columns) ==
    [k \in 1..(rows * columns) |->
        LET o == (k - 1) \div columns
            i == (k - 1) % columns
        IN BoardTraversalEntry(o, i, i = 0)]
\* mutant: RIGHT visits the columns in ascending order
RightTraverseAscending(rows, columns) ==
    [k \in 1..(rows * columns) |->
        LET o == (k - 1) \div columns
            i == (k - 1) % columns
        IN BoardTraversalEntry(o, i, i = 0)]
RightTraverse(rows, columns) ==
    [k \in 1..(rows * columns) |->
        LET o == (k - 1) \div columns
            i == (k - 1) % columns
        IN BoardTraversalEntry(o, columns - 1 - i, i = 0)]
traverse(d, rows, columns) ==
    CASE d = UP -> UpTraverse(rows, columns)
      [] d = DOWN -> DownTraverse(rows, columns)
      [] d = LEFT -> LeftTraverse(rows, columns)
      [] d = RIGHT -> RightTraverse(rows, columns)
\* the PointMover bound by each strategy's constructor
mover(d, point, offset) ==
    CASE d = UP -> moveRow(point, -offset)
      [] d = DOWN -> moveRow(point, offset)
      [] d = LEFT -> moveColumn(point, -offset)
      [] d = RIGHT -> moveColumn(point, offset)

\* --------------------------------------------------- IdenticalBlockMerger
\* mutant: any two blocks merge
canMergeAny(block1, block2) == block1 # Empty /\ block2 # Empty
canMerge(block1, block2) == block1 = block2
\* mutant: the merged block is the next value up whatever the operands add to
mergeIncrement(block1, block2) == block1 + 2
merge(block1, block2) == block1 + block2

\* ----------------------------------------------------- GameBoardOperation
\* The running state of one execute(): the board it works on, the
\* operation's fields, the listener's invocations so far, the value
\* returned by the last operate, and the move map (insertion order).
ExecState(b, op) ==
    [board |-> b, emptyCount |-> op.emptyCount, isDstMerged |-> op.isDstMerged,
     listener |-> op.listener, notified |-> <<>>, move |-> Null, moves |-> <<>>]
BlockWithPoint(block, point) == [block |-> block, point |-> point]
\* mutant: the listener is told the coordinate the tile came from
notifyListenerAtSource(st, fromPoint, fromBlock, toPoint, toBlock, mergedBlock) ==
    IF st.listener
    THEN Append(st.notified,
                [result |-> BlockWithPoint(mergedBlock, fromPoint),
                 from |-> BlockWithPoint(fromBlock, fromPoint),
                 to |-> BlockWithPoint(toBlock, toPoint)])
    ELSE st.notified
\* mutant: an absent listener leaves the previous call's listener in place
prepareKeepListener(op, l) ==
    [emptyCount |-> 0, isDstMerged |-> FALSE, listener |-> (l \/ op.listener)]
\* mutant: the operation is left as the previous call left it
prepareNothing(op, l) == op
prepare(op, l) == [emptyCount |-> 0, isDstMerged |-> FALSE, listener |-> l]
notifyListener(st, fromPoint, fromBlock, toPoint, toBlock, mergedBlock) ==
    IF st.listener
    THEN Append(st.notified,
                [result |-> BlockWithPoint(mergedBlock, toPoint),
                 from |-> BlockWithPoint(fromBlock, fromPoint),
                 to |-> BlockWithPoint(toBlock, toPoint)])
    ELSE st.notified
\* mutant: a destination that already absorbed a merge merges again
moveBlockRemerge(st, from, to) ==
    LET currentBlock == blockAt(st.board, prow(from), pcolumn(from))
        dstBlock == blockAt(st.board, prow(to), pcolumn(to))
    IN IF dstBlock = Empty
       THEN [st EXCEPT
               !.board = removeBlockAt(setBlockAt(st.board, prow(to), pcolumn(to), currentBlock),
                                       prow(from), pcolumn(from)),
               !.isDstMerged = FALSE,
               !.move = [from |-> from, to |-> to, merged |-> FALSE]]
       ELSE IF currentBlock # dstBlock
       THEN [st EXCEPT !.move = [from |-> <<-1, -1>>, to |-> <<-1, -1>>, merged |-> FALSE]]
       ELSE [st EXCEPT
               !.board = removeBlockAt(setBlockAt(st.board, prow(to), pcolumn(to),
                                                  currentBlock + dstBlock),
                                       prow(from), pcolumn(from)),
               !.isDstMerged = TRUE,
               !.emptyCount = @ + 1,
               !.notified = notifyListener(st, from, currentBlock, to, dstBlock,
                                           currentBlock + dstBlock),
               !.move = [from |-> from, to |-> to, merged |-> TRUE]]
\* mutant: a plain relocation leaves isDstMerged as it was
moveBlockKeepFlag(st, from, to) ==
    LET currentBlock == blockAt(st.board, prow(from), pcolumn(from))
        dstBlock == blockAt(st.board, prow(to), pcolumn(to))
    IN IF dstBlock = Empty
       THEN [st EXCEPT
               !.board = removeBlockAt(setBlockAt(st.board, prow(to), pcolumn(to), currentBlock),
                                       prow(from), pcolumn(from)),
               !.move = [from |-> from, to |-> to, merged |-> st.isDstMerged]]
       ELSE IF currentBlock # dstBlock \/ st.isDstMerged
       THEN [st EXCEPT !.move = [from |-> <<-1, -1>>, to |-> <<-1, -1>>, merged |-> FALSE]]
       ELSE [st EXCEPT
               !.board = removeBlockAt(setBlockAt(st.board, prow(to), pcolumn(to),
                                                  currentBlock + dstBlock),
                                       prow(from), pcolumn(from)),
               !.isDstMerged = TRUE,
               !.emptyCount = @ + 1,
               !.notified = notifyListener(st, from, currentBlock, to, dstBlock,
                                           currentBlock + dstBlock),
               !.move = [from |-> from, to |-> to, merged |-> TRUE]]
\* mutant: a relocated tile is also left on its source cell
moveBlockLeaveSource(st, from, to) ==
    LET currentBlock == blockAt(st.board, prow(from), pcolumn(from))
        dstBlock == blockAt(st.board, prow(to), pcolumn(to))
    IN IF dstBlock = Empty
       THEN [st EXCEPT
               !.board = setBlockAt(st.board, prow(to), pcolumn(to), currentBlock),
               !.isDstMerged = FALSE,
               !.move = [from |-> from, to |-> to, merged |-> FALSE]]
       ELSE IF currentBlock # dstBlock \/ st.isDstMerged
       THEN [st EXCEPT !.move = [from |-> <<-1, -1>>, to |-> <<-1, -1>>, merged |-> FALSE]]
       ELSE [st EXCEPT
               !.board = removeBlockAt(setBlockAt(st.board, prow(to), pcolumn(to),
                                                  currentBlock + dstBlock),
                                       prow(from), pcolumn(from)),
               !.isDstMerged = TRUE,
               !.emptyCount = @ + 1,
               !.notified = notifyListener(st, from, currentBlock, to, dstBlock,
                                           currentBlock + dstBlock),
               !.move = [from |-> from, to |-> to, merged |-> TRUE]]
\* mutant: a merge does not count the vacated cell
moveBlockNoCount(st, from, to) ==
    LET currentBlock == blockAt(st.board, prow(from), pcolumn(from))
        dstBlock == blockAt(st.board, prow(to), pcolumn(to))
    IN IF dstBlock = Empty
       THEN [st EXCEPT
               !.board = removeBlockAt(setBlockAt(st.board, prow(to), pcolumn(to), currentBlock),
                                       prow(from), pcolumn(from)),
               !.isDstMerged = FALSE,
               !.move = [from |-> from, to |-> to, merged |-> FALSE]]
       ELSE IF currentBlock # dstBlock \/ st.isDstMerged
       THEN [st EXCEPT !.move = [from |-> <<-1, -1>>, to |-> <<-1, -1>>, merged |-> FALSE]]
       ELSE [st EXCEPT
               !.board = removeBlockAt(setBlockAt(st.board, prow(to), pcolumn(to),
                                                  currentBlock + dstBlock),
                                       prow(from), pcolumn(from)),
               !.isDstMerged = TRUE,
               !.notified = notifyListener(st, from, currentBlock, to, dstBlock,
                                           currentBlock + dstBlock),
               !.move = [from |-> from, to |-> to, merged |-> TRUE]]
\* mutant: a tile is never moved onto an empty cell
moveBlockMergeOnly(st, from, to) ==
    LET currentBlock == blockAt(st.board, prow(from), pcolumn(from))
        dstBlock == blockAt(st.board, prow(to), pcolumn(to))
    IN IF dstBlock = Empty \/ ~canMerge(currentBlock, dstBlock) \/ st.isDstMerged
       THEN [st EXCEPT !.move = Null]
       ELSE LET mergedBlock == merge(currentBlock, dstBlock)
            IN [st EXCEPT
                  !.board = removeBlockAt(setBlockAt(st.board, prow(to), pcolumn(to), mergedBlock),
                                          prow(from), pcolumn(from)),
                  !.isDstMerged = TRUE,
                  !.emptyCount = @ + 1,
                  !.notified = notifyListener(st, from, currentBlock, to, dstBlock, mergedBlock),
                  !.move = BlockMove(from, to, TRUE)]
moveBlock(st, from, to) ==
    LET row == prow(from)
        column == pcolumn(from)
        dstRow == prow(to)
        dstColumn == pcolumn(to)
        currentBlock == blockAt(st.board, row, column)
        dstBlock == blockAt(st.board, dstRow, dstColumn)
    IN IF dstBlock = Empty
       THEN [st EXCEPT
               !.board = removeBlockAt(setBlockAt(st.board, dstRow, dstColumn, currentBlock),
                                       row, column),
               !.isDstMerged = FALSE,
               !.move = BlockMove(from, to, FALSE)]
       ELSE IF ~canMerge(currentBlock, dstBlock) \/ st.isDstMerged
       THEN [st EXCEPT !.move = Null]
       ELSE LET mergedBlock == merge(currentBlock, dstBlock)
            IN [st EXCEPT
                  !.board = removeBlockAt(setBlockAt(st.board, dstRow, dstColumn, mergedBlock),
                                          row, column),
                  !.isDstMerged = TRUE,
                  !.emptyCount = @ + 1,
                  !.notified = notifyListener(st, from, currentBlock, to, dstBlock, mergedBlock),
                  !.move = BlockMove(from, to, TRUE)]
\* mutant: only the largest in-bounds offset is tried, with no fallback
RECURSIVE offsetLoopNoFallback(_, _, _, _)
offsetLoopNoFallback(st, point, d, offset) ==
    IF ~(offset > 0) THEN st
    ELSE LET dstPoint == mover(d, point, offset)
         IN IF isWithinBound(st.board, prow(dstPoint), pcolumn(dstPoint))
            THEN moveBlock(st, point, dstPoint)
            ELSE offsetLoopNoFallback(st, point, d, offset - 1)
\* the while loop of operate: offset counts down while no move was made
RECURSIVE offsetLoop(_, _, _, _)
offsetLoop(st, point, d, offset) ==
    IF ~(offset > 0 /\ st.move = Null) THEN st
    ELSE LET dstPoint == mover(d, point, offset)
             next == IF isWithinBound(st.board, prow(dstPoint), pcolumn(dstPoint))
                     THEN moveBlock(st, point, dstPoint)
                     ELSE st
         IN offsetLoop(next, point, d, offset - 1)
\* mutant: the first offset is emptyCount, not 1 + emptyCount
operateNoPlusOne(st, point, isNewRound, d) ==
    LET s0 == IF isNewRound
              THEN [st EXCEPT !.emptyCount = 0, !.isDstMerged = FALSE, !.move = Null]
              ELSE [st EXCEPT !.move = Null]
    IN IF ~isWithinBound(s0.board, prow(point), pcolumn(point)) THEN s0
       ELSE IF blockAt(s0.board, prow(point), pcolumn(point)) = Empty
       THEN [s0 EXCEPT !.emptyCount = @ + 1]
       ELSE offsetLoop(s0, point, d, s0.emptyCount)
\* mutant: an empty cell is not counted
operateNoCount(st, point, isNewRound, d) ==
    LET s0 == IF isNewRound
              THEN [st EXCEPT !.emptyCount = 0, !.isDstMerged = FALSE, !.move = Null]
              ELSE [st EXCEPT !.move = Null]
    IN IF ~isWithinBound(s0.board, prow(point), pcolumn(point)) THEN s0
       ELSE IF blockAt(s0.board, prow(point), pcolumn(point)) = Empty THEN s0
       ELSE offsetLoop(s0, point, d, 1 + s0.emptyCount)
\* mutant: the per-line fields are carried over to the next line
newRoundKeep(st, isNewRound) == st
\* the first statement of operate
newRound(st, isNewRound) ==
    IF isNewRound THEN [st EXCEPT !.emptyCount = 0, !.isDstMerged = FALSE] ELSE st
operate(st, point, isNewRound, d) ==
    LET s0 == [newRound(st, isNewRound) EXCEPT !.move = Null]
        row == prow(point)
        column == pcolumn(point)
    IN IF ~isWithinBound(s0.board, row, column) THEN s0
       ELSE IF blockAt(s0.board, row, column) = Empty
       THEN [s0 EXCEPT !.emptyCount = @ + 1]
       ELSE offsetLoop(s0, point, d, 1 + s0.emptyCount)

\* -------------------------------------- AbstractBoardTraversalStrategy
\* Map.set: a new key is appended, an existing key keeps its position
MapSet(moves, point, m) ==
    IF \E i \in 1..Len(moves) : moves[i].from = point
    THEN [i \in 1..Len(moves) |-> IF moves[i].from = point THEN m ELSE moves[i]]
    ELSE Append(moves, m)
\* mutant: only merged moves are put in the map
RECURSIVE executeLoopMergedOnly(_, _, _, _, _)
executeLoopMergedOnly(st, entries, k, d, earlyTerminated) ==
    IF k > Len(entries) THEN st
    ELSE LET entry == entries[k]
             point == Point(entry.row, entry.column)
             s1 == operate(st, point, entry.isNewRound, d)
         IN IF s1.move # Null /\ s1.move.merged
            THEN LET s2 == [s1 EXCEPT !.moves = MapSet(s1.moves, point, s1.move)]
                 IN IF earlyTerminated THEN s2
                    ELSE executeLoopMergedOnly(s2, entries, k + 1, d, earlyTerminated)
            ELSE executeLoopMergedOnly(s1, entries, k + 1, d, earlyTerminated)
\* mutant: the early return happens before the move is put in the map
RECURSIVE executeLoopReturnFirst(_, _, _, _, _)
executeLoopReturnFirst(st, entries, k, d, earlyTerminated) ==
    IF k > Len(entries) THEN st
    ELSE LET entry == entries[k]
             point == Point(entry.row, entry.column)
             s1 == operate(st, point, entry.isNewRound, d)
         IN IF s1.move # Null
            THEN IF earlyTerminated THEN s1
                 ELSE executeLoopReturnFirst(
                          [s1 EXCEPT !.moves = MapSet(s1.moves, point, s1.move)],
                          entries, k + 1, d, earlyTerminated)
            ELSE executeLoopReturnFirst(s1, entries, k + 1, d, earlyTerminated)
RECURSIVE executeLoop(_, _, _, _, _)
executeLoop(st, entries, k, d, earlyTerminated) ==
    IF k > Len(entries) THEN st
    ELSE LET entry == entries[k]
             point == Point(entry.row, entry.column)
             s1 == operate(st, point, entry.isNewRound, d)
         IN IF s1.move # Null
            THEN LET s2 == [s1 EXCEPT !.moves = MapSet(s1.moves, point, s1.move)]
                 IN IF earlyTerminated THEN s2
                    ELSE executeLoop(s2, entries, k + 1, d, earlyTerminated)
            ELSE executeLoop(s1, entries, k + 1, d, earlyTerminated)
execute(b, op, d, earlyTerminated) ==
    executeLoop(ExecState(b, op), traverse(d, b.rowCount, b.columnCount), 1, d,
                earlyTerminated)
OperationOf(st) ==
    [emptyCount |-> st.emptyCount, isDstMerged |-> st.isDstMerged, listener |-> st.listener]

\* ------------------------------------------------------------------- Game
\* what the last call was, the board it found, and what it returned
\* (for a call on a Board: the receiver, the arguments, whether it threw, what
\* it returned, and the second board as the call found it)
Call(op, d, before, moves, notified, would, slot) ==
    [op |-> op, direction |-> d, before |-> before, moves |-> moves,
     notified |-> notified, would |-> would, slot |-> slot,
     target |-> "board", args |-> <<>>, threw |-> FALSE, result |-> Empty,
     before2 |-> board2, sessionBefore |-> session]
Total(b) ==
    LET RECURSIVE sum(_)
        sum(i) == IF i = 0 THEN 0 ELSE b.blocks[i] + sum(i - 1)
    IN sum(Len(b.blocks))
Occupied(blocks) == Cardinality({i \in 1..Len(blocks) : blocks[i] # Empty})

Boards ==
    UNION {
        {[rowCount |-> r, columnCount |-> c, blocks |-> bl, blockCount |-> Occupied(bl)] :
            bl \in [1..(r * c) -> {Empty} \cup SPAWNED_BLOCKS]} :
        <<r, c>> \in {p \in (1..MaxRows) \X (1..MaxCols) : p[1] * p[2] <= MaxCells}}

\* localStorage without a saved game
NoSave == [score |-> 0, board |-> toJson(NoBoard)]
\* the module-level state of main.js before startGame has run
\* renders: the render promises not yet settled, by the handler awaiting them
NoSession ==
    [started |-> FALSE, score |-> 0, stopped |-> FALSE, rendering |-> FALSE,
     renders |-> [startGame |-> 0, reset |-> 0, moveInDirection |-> 0]]

\* the page before any cell was created: #movingCells of the CellManager in
\* insertion order, the elements the DomRecycler has created (an element's
\* index is its identity), the recycler's #backup stack, and the render
\* promises not yet settled, oldest first
\* spawnedPoint is the variable of main.js; resets counts the clicks on the
\* reset button; script numbers the script that is running
NoDisplay ==
    [cells |-> <<>>, elements |-> <<>>, backup |-> <<>>, renders |-> <<>>,
     spawnedPoint |-> NoPoint, resets |-> 0, script |-> 0]

\* no execute() is under way
NoRun ==
    [active |-> FALSE, direction |-> UP, earlyTerminated |-> FALSE, input |-> NoBoard,
     visited |-> <<>>, found |-> <<>>, moves |-> <<>>]

Init ==
    /\ board \in Boards
    /\ operation = [emptyCount |-> 0, isDstMerged |-> FALSE, listener |-> FALSE]
    /\ listener = TRUE
    /\ board2 = NoBoard
    /\ session = NoSession
    /\ run = NoRun
    /\ display = NoDisplay
    /\ call = Call("new", UP, board, <<>>, <<>>, FALSE, NoPoint)

\* the body of Game.moveBlocks, recorded with `args`
moveBlocksRecorded(d, args) ==
    \E st \in {execute(board, prepare(operation, listener), d, FALSE)} :
       /\ board' = st.board
       /\ operation' = OperationOf(st)
       /\ call' = [Call("moveBlocks", d, board, st.moves, st.notified, FALSE, NoPoint)
                      EXCEPT !.args = args]
       /\ UNCHANGED <<listener, board2, session, run, display>>
moveBlocks(d) == moveBlocksRecorded(d, <<>>)

\* mutant: the probe runs on the live board
tryMoveBlocksOnLive(d) ==
    \E st \in {execute(board, prepare(operation, FALSE), d, TRUE)} :
       /\ board' = st.board
       /\ operation' = OperationOf(st)
       /\ call' = Call("tryMoveBlocks", d, board, <<>>, st.notified, Len(st.moves) # 0, NoPoint)
       /\ UNCHANGED <<listener, board2, session, run, display>>
tryMoveBlocks(d) ==
    \* the traversal runs on tempBoard; the live board is not passed to it
    \E st \in {execute(copy(board), prepare(operation, FALSE), d, TRUE)} :
       /\ operation' = OperationOf(st)
       /\ call' = Call("tryMoveBlocks", d, board, <<>>, st.notified, Len(st.moves) # 0, NoPoint)
       /\ UNCHANGED <<board, listener, board2, session, run, display>>

\* the draw Math.random() * totalWeight, taken at its integer values
RECURSIVE sumWeights(_, _)
sumWeights(weights, i) == IF i = 0 THEN 0 ELSE weights[i] + sumWeights(weights, i - 1)
Draws(weights) == 0..(sumWeights(weights, Len(weights)) - 1)
\* the loop of randomItemWeighted from index i on (1-based); falling out of
\* the loop, or subtracting a missing weight, returns `undefined`
\* mutant: an item is returned as soon as the remaining weight is not positive
RECURSIVE randomItemWeightedLoopInclusive(_, _, _, _)
randomItemWeightedLoopInclusive(items, weights, randomWeight, i) ==
    IF i > Len(items) \/ i > Len(weights) THEN Empty
    ELSE IF randomWeight - weights[i] <= 0 THEN items[i]
    ELSE randomItemWeightedLoopInclusive(items, weights, randomWeight - weights[i], i + 1)
RECURSIVE randomItemWeightedLoop(_, _, _, _)
randomItemWeightedLoop(items, weights, randomWeight, i) ==
    IF i > Len(items) \/ i > Len(weights) THEN Empty
    ELSE IF randomWeight - weights[i] < 0 THEN items[i]
    ELSE randomItemWeightedLoop(items, weights, randomWeight - weights[i], i + 1)
randomItemWeighted(items, weights, randomWeight) ==
    randomItemWeightedLoop(items, weights, randomWeight, 1)
isSpawnable(b) == b.blockCount # getSize(b)
\* mutant: the block is written without looking for an empty slot
spawnOverwrite(op, block, args) ==
    /\ Total(board) + block <= MaxTotal
    /\ \E slot \in getEmptySlotsAll(board) :
       /\ board' = setBlockAt(board, prow(slot), pcolumn(slot), block)
       /\ call' = [Call(op, UP, board, <<>>, <<>>, FALSE, slot) EXCEPT !.args = args]
       /\ UNCHANGED <<operation, listener, board2, session, run, display>>
\* the body of Game.spawnBlock, recorded as the call `op` with arguments args
spawn(op, block, args) ==
    IF ~isSpawnable(board) \/ block = Empty \/ getEmptySlots(board) = {}
    THEN /\ call' = [Call(op, UP, board, <<>>, <<>>, FALSE, NoPoint) EXCEPT !.args = args]
         /\ UNCHANGED <<board, operation, listener, board2, session, run, display>>
    ELSE /\ Total(board) + block <= MaxTotal
         /\ \E slot \in getEmptySlots(board) :
            /\ board' = setBlockAt(board, prow(slot), pcolumn(slot), block)
            /\ call' = [Call(op, UP, board, <<>>, <<>>, FALSE, slot) EXCEPT !.args = args]
            /\ UNCHANGED <<operation, listener, board2, session, run, display>>
spawnBlock(block) == spawn("spawnBlock", block, <<block>>)
spawnBlockWeighted(blocks, weights) ==
    \E block \in {randomItemWeighted(blocks, weights, r) : r \in Draws(weights)} :
       spawn("spawnBlockWeighted", block, <<block, blocks, weights>>)

\* the weights handed to spawnBlockWeighted with the values [2,4]: main.js's,
\* a zero weight, one weight too few and one too many
WeightArrays == {SPAWNED_WEIGHTS, <<0, 3>>, <<90>>, <<90, 10, 5>>}

clearBoard ==
    /\ board' = clear(board)
    /\ call' = Call("clearBoard", UP, board, <<>>, <<>>, FALSE, NoPoint)
    /\ UNCHANGED <<operation, listener, board2, session, run, display>>

Next ==
    \/ \E d \in Direction : moveBlocks(d)
    \/ \E d \in Direction : tryMoveBlocks(d)
    \/ \E block \in SPAWNED_BLOCKS : spawnBlock(block)
    \/ spawnBlockWeighted(SPAWNED_ITEMS, SPAWNED_WEIGHTS)
    \/ clearBoard

Spec == Init /\ [][Next]_vars

\* moves and probes on the game's one operation object; the record of a move
\* holds the operation object as the call found it
HistoryNext ==
    \/ \E d \in Direction : moveBlocksRecorded(d, <<operation>>)
    \/ \E d \in Direction : tryMoveBlocks(d)

HistorySpec == Init /\ [][HistoryNext]_vars

\* a caller that hands spawnBlockWeighted arrays of its own
SpawnNext ==
    \/ \E weights \in WeightArrays : spawnBlockWeighted(SPAWNED_ITEMS, weights)
    \/ clearBoard

SpawnSpec == Init /\ [][SpawnNext]_vars

\* ------------------------------------------------ execute, cell by cell
\* One execute(board, operation, earlyTerminated) of the strategy of direction
\* d, an iteration of its for loop at a time.  run.visited are the entries
\* handed to operate so far, run.found what each of these cells held when it
\* was handed over, run.moves the map; the iteration that returns
\* (early, or on the last entry of the generator) ends the run.
\* mutant: a move never ends the loop
returnsEarlyNever(m, earlyTerminated) == FALSE
\* the `return moves` inside the loop
returnsEarly(m, earlyTerminated) == m # Null /\ earlyTerminated
execute_begin(d, earlyTerminated) ==
    /\ ~run.active
    /\ operation' = prepare(operation, IF earlyTerminated THEN FALSE ELSE listener)
    /\ run' = [active |-> TRUE, direction |-> d, earlyTerminated |-> earlyTerminated,
               input |-> board, visited |-> <<>>, found |-> <<>>, moves |-> <<>>]
    /\ call' = Call("execute", d, board, <<>>, <<>>, earlyTerminated, NoPoint)
    /\ UNCHANGED <<board, listener, board2, session, display>>

\* call.args: isNewRound, and #emptyCount and #isDstMerged as operate has them
\* after its first statement; call.moves: the move operate returned, if any
execute_step ==
    /\ run.active
    /\ LET entry == traverse(run.direction, board.rowCount, board.columnCount)
                        [Len(run.visited) + 1]
           point == Point(entry.row, entry.column)
           atVisit == newRound(ExecState(board, operation), entry.isNewRound)
       IN \E st \in {operate(ExecState(board, operation), point, entry.isNewRound,
                              run.direction)} :
             /\ board' = st.board
             /\ operation' = OperationOf(st)
             /\ run' = [run EXCEPT
                          !.visited = Append(@, entry),
                          !.found = Append(@, getBlock(board, entry.row, entry.column)),
                          !.moves = IF st.move # Null THEN MapSet(@, point, st.move) ELSE @,
                          !.active = ~ \/ returnsEarly(st.move, run.earlyTerminated)
                                       \/ Len(run.visited) + 1 = getSize(board)]
             /\ call' = [Call("operate", run.direction, board,
                              IF st.move # Null THEN <<st.move>> ELSE <<>>,
                              st.notified, run.earlyTerminated, point)
                            EXCEPT !.args = <<entry.isNewRound, atVisit.emptyCount,
                                              atVisit.isDstMerged>>]
    /\ UNCHANGED <<listener, board2, session, display>>

ExecuteNext ==
    \/ \E d \in Direction : \E earlyTerminated \in BOOLEAN : execute_begin(d, earlyTerminated)
    \/ execute_step

ExecuteSpec == Init /\ [][ExecuteNext]_vars

\* ------------------------------------------------------ calls on a Board
\* A caller holding Board objects directly: the board `b` (the game's), and a
\* second one obtained from Board.copy or Board.fromJson.
Receivers == {"board", "board2"}
BoardOf(t) == IF t = "board" THEN board ELSE board2
BoardCall(op, t, args, threw, result) ==
    [Call(op, UP, board, <<>>, <<>>, FALSE, NoPoint)
        EXCEPT !.target = t, !.args = args, !.threw = threw, !.result = result]
\* mutant: the two objects share one block array
WriteShared(t, b) == board' = b /\ board2' = b
\* the call leaves b on the receiver and nothing on the other object: each
\* Board has a block array of its own
Write(t, b) ==
    IF t = "board" THEN board' = b /\ UNCHANGED board2
    ELSE board2' = b /\ UNCHANGED board
\* coordinates handed to a call: every coordinate of the grid and, while b is
\* the only board, coordinates with the row, the column or both one step
\* outside it
Inside(b) == (0..(b.rowCount - 1)) \X (0..(b.columnCount - 1))
Outside(b) ==
    {Point(-1, 0), Point(b.rowCount, 0), Point(0, -1), Point(0, b.columnCount),
     Point(-1, -1), Point(b.rowCount, b.columnCount)}
Coordinates(t) ==
    IF board2 = NoBoard THEN Inside(board) \cup Outside(board) ELSE Inside(BoardOf(t))
\* encoded records handed to fromJson: the encoding of b, the same with the
\* last value missing, and the same with one value too many
JsonInputs(b) ==
    LET json == toJson(b)
    IN {json,
        [json EXCEPT !.values = SubSeq(json.values, 1, Len(json.values) - 1)],
        [json EXCEPT !.values = Append(json.values, JsonNumber(2))]}
\* the calls on two boards are followed while the two hold few tiles
Small == board2 = NoBoard \/ Total(board) + Total(board2) <= MaxShared

BoardInit ==
    /\ board \in {NewBoard(p[1], p[2]) :
                    p \in {q \in (1..MaxRows) \X (1..MaxCols) : q[1] * q[2] <= MaxCells}}
    /\ operation = [emptyCount |-> 0, isDstMerged |-> FALSE, listener |-> FALSE]
    /\ listener = TRUE
    /\ board2 = NoBoard
    /\ session = NoSession
    /\ run = NoRun
    /\ display = NoDisplay
    /\ call = Call("new", UP, board, <<>>, <<>>, FALSE, NoPoint)

Board_blockAt(t, row, column) ==
    /\ BoardOf(t) # NoBoard /\ Small
    /\ \E block \in {blockAt(BoardOf(t), row, column)} :
          call' = BoardCall("blockAt", t, <<row, column>>, block = Thrown, block)
    /\ UNCHANGED <<board, board2, operation, listener, session, run, display>>

Board_setBlockAt(t, row, column, block) ==
    /\ BoardOf(t) # NoBoard /\ Small
    /\ Total(board) + Total(board2) + block <= MaxTotal
    /\ Write(t, setBlockAt(BoardOf(t), row, column, block))
    /\ call' = BoardCall("setBlockAt", t, <<row, column, block>>,
                         blockAt(BoardOf(t), row, column) = Thrown, Empty)
    /\ UNCHANGED <<operation, listener, session, run, display>>

Board_removeBlockAt(t, row, column) ==
    /\ BoardOf(t) # NoBoard /\ Small
    /\ Write(t, removeBlockAt(BoardOf(t), row, column))
    /\ call' = BoardCall("removeBlockAt", t, <<row, column>>,
                         blockAt(BoardOf(t), row, column) = Thrown, Empty)
    /\ UNCHANGED <<operation, listener, session, run, display>>

Board_clear(t) ==
    /\ BoardOf(t) # NoBoard /\ Small
    /\ Write(t, clear(BoardOf(t)))
    /\ call' = BoardCall("clear", t, <<>>, FALSE, Empty)
    /\ UNCHANGED <<operation, listener, session, run, display>>

Board_copy ==
    /\ board2' = copy(board)
    /\ call' = BoardCall("copy", "board", <<>>, FALSE, Empty)
    /\ UNCHANGED <<board, operation, listener, session, run, display>>

Board_fromJson(json) ==
    /\ board2' = fromJson(json)
    /\ call' = BoardCall("fromJson", "board2", <<json>>, FALSE, Empty)
    /\ UNCHANGED <<board, operation, listener, session, run, display>>

\* Game.moveBlocks of a Game constructed on the receiver for this one call,
\* with an operation of its own
NewGame_moveBlocks(t, d) ==
    /\ BoardOf(t) # NoBoard /\ Small
    /\ \E st \in {execute(BoardOf(t), prepare(operation, listener), d, FALSE)} :
          /\ Write(t, st.board)
          /\ call' = [Call("moveBlocks", d, board, st.moves, st.notified, FALSE, NoPoint)
                         EXCEPT !.target = t]
    /\ UNCHANGED <<operation, listener, session, run, display>>

BoardNext ==
    \/ \E p \in Coordinates("board") : Board_blockAt("board", prow(p), pcolumn(p))
    \/ \E t \in Receivers : \E p \in Coordinates(t) :
          \E block \in SPAWNED_BLOCKS : Board_setBlockAt(t, prow(p), pcolumn(p), block)
    \/ \E t \in Receivers : \E p \in Coordinates(t) :
          Board_removeBlockAt(t, prow(p), pcolumn(p))
    \/ \E t \in Receivers : Board_clear(t)
    \/ Board_copy
    \/ \E json \in JsonInputs(board) : Board_fromJson(json)
    \/ \E t \in Receivers : \E d \in Direction : NewGame_moveBlocks(t, d)
    \/ \E block \in SPAWNED_BLOCKS : Small /\ spawnBlock(block)

BoardSpec == BoardInit /\ [][BoardNext]_vars

\* ---------------------------------------------------------------- session
\* The handlers of main.js.  Each action is the synchronous part of a handler;
\* what follows an `await` of a render runs in animationEnd.
\* Object.values(Direction)
DirectionValues == <<UP, DOWN, LEFT, RIGHT>>
\* the listener main.js registers on the Game
onBlockMerged(score, mergedBlock) == score + mergedBlock
\* the score after the listener has been called for notified[i], ...
RECURSIVE scoreAfter(_, _, _)
scoreAfter(score, notified, i) ==
    IF i > Len(notified) THEN score
    ELSE scoreAfter(onBlockMerged(score, notified[i].result.block), notified, i + 1)
\* mutant: only the vertical directions are probed
RECURSIVE isGameOverLoopVertical(_, _, _)
isGameOverLoopVertical(b, op, k) ==
    IF k > 2 THEN [over |-> TRUE, operation |-> op]
    ELSE LET st == execute(copy(b), prepare(op, FALSE), DirectionValues[k], TRUE)
         IN IF Len(st.moves) # 0 THEN [over |-> FALSE, operation |-> OperationOf(st)]
            ELSE isGameOverLoopVertical(b, OperationOf(st), k + 1)
\* the loop of isGameOver from direction k on: the answer, and the shared
\* operation as the probes leave it
RECURSIVE isGameOverLoop(_, _, _)
isGameOverLoop(b, op, k) ==
    IF k > Len(DirectionValues) THEN [over |-> TRUE, operation |-> op]
    ELSE LET st == execute(copy(b), prepare(op, FALSE), DirectionValues[k], TRUE)
         IN IF Len(st.moves) # 0 THEN [over |-> FALSE, operation |-> OperationOf(st)]
            ELSE isGameOverLoop(b, OperationOf(st), k + 1)
isGameOver(stopped, b, op) ==
    IF stopped THEN [over |-> TRUE, operation |-> op] ELSE isGameOverLoop(b, op, 1)
\* the outcomes of game.spawnBlockWeighted on b: the board and the returned slot
spawnBlockWeightedOn(b, blocks, weights) ==
    UNION {IF ~isSpawnable(b) \/ block = Empty \/ getEmptySlots(b) = {}
           THEN {[board |-> b, slot |-> NoPoint]}
           ELSE {[board |-> setBlockAt(b, prow(slot), pcolumn(slot), block), slot |-> slot] :
                    slot \in getEmptySlots(b)} :
           block \in {randomItemWeighted(blocks, weights, r) : r \in Draws(weights)}}
\* the boards initGameBoard can leave after n more spawns
RECURSIVE initGameBoard(_, _)
initGameBoard(b, n) ==
    IF n = 0 THEN {b}
    ELSE UNION {initGameBoard(r.board, n - 1) :
                   r \in spawnBlockWeightedOn(b, SPAWNED_ITEMS, SPAWNED_WEIGHTS)}
\* the loop of restoreGameStates over the cells from index k on (row-major)
RECURSIVE restoreBoard(_, _, _)
restoreBoard(b, savedBoard, k) ==
    IF k >= getSize(b) THEN b
    ELSE LET i == k \div b.columnCount
             j == k % b.columnCount
         IN restoreBoard(setBlockAt(b, i, j, blockAt(savedBoard, i, j)), savedBoard, k + 1)
hasGameSavedStates(stored) == stored # NoSave
\* what localStorage can hold when the page loads: nothing, or the score and
\* the board an earlier session saved
StoredStates(b) ==
    {NoSave} \cup {[score |-> 0, board |-> toJson(x)] :
                      x \in {y \in Boards : /\ y.rowCount = b.rowCount
                                            /\ y.columnCount = b.columnCount
                                            /\ Total(y) <= MaxTotal}}
saveGameStates == [score |-> session.score, board |-> toJson(board)]
Pending == session.renders.startGame + session.renders.reset + session.renders.moveInDirection
Handlers == {"startGame", "reset", "moveInDirection"}
SessionCall(op, d, moves, notified, slot) == Call(op, d, board, moves, notified, FALSE, slot)
\* the record of a handler that takes no direction: what it was and what it
\* read or wrote outside the page
HandlerCall(op, args) ==
    [Call(op, UP, NoBoard, <<>>, <<>>, FALSE, NoPoint)
        EXCEPT !.args = args, !.sessionBefore = NoSession]

SessionInit ==
    /\ board \in {NewBoard(p[1], p[2]) :
                    p \in {q \in (1..MaxRows) \X (1..MaxCols) : q[1] * q[2] <= MaxCells}}
    /\ operation = [emptyCount |-> 0, isDstMerged |-> FALSE, listener |-> FALSE]
    /\ listener = TRUE
    /\ board2 = NoBoard
    /\ session = NoSession
    /\ run = NoRun
    /\ display = NoDisplay
    /\ call = Call("new", UP, board, <<>>, <<>>, FALSE, NoPoint)

startGame(stored) ==
    /\ ~session.started
    /\ \E b \in (IF ~hasGameSavedStates(stored)
                 THEN initGameBoard(board, INITIAL_BLOCK_COUNT)
                 ELSE {restoreBoard(board, fromJson(stored.board), 0)}) :
       \E over \in {isGameOver(session.stopped, b, operation)} :
          /\ board' = b
          /\ operation' = over.operation
          /\ session' = [session EXCEPT
                           !.started = TRUE,
                           !.score = IF hasGameSavedStates(stored) THEN stored.score ELSE @,
                           !.stopped = over.over,
                           !.rendering = (b.blockCount # 0),
                           !.renders.startGame = IF b.blockCount # 0 THEN 1 ELSE 0]
          /\ call' = HandlerCall("startGame", <<stored>>)
    /\ UNCHANGED <<listener, board2, run, display>>

\* mutant: an empty move map is not told apart
noMovesNever(moves) == FALSE
\* moves.size === 0
noMoves(moves) == Len(moves) = 0
moveInDirection(d) ==
    /\ session.started
    /\ IF session.rendering \/ session.stopped
       THEN /\ call' = SessionCall("moveInDirection", d, <<>>, <<>>, NoPoint)
            /\ UNCHANGED <<board, operation, session>>
       ELSE \E st \in {execute(board, prepare(operation, listener), d, FALSE)} :
            IF noMoves(st.moves)
            THEN /\ board' = st.board
                 /\ operation' = OperationOf(st)
                 /\ session' = [session EXCEPT !.score = scoreAfter(@, st.notified, 1)]
                 /\ call' = SessionCall("moveInDirection", d, st.moves, st.notified, NoPoint)
            ELSE /\ Total(st.board) <= MaxTotal /\ Pending < MaxRenders
                 /\ \E r \in spawnBlockWeightedOn(st.board, SPAWNED_ITEMS, SPAWNED_WEIGHTS) :
                    \E over \in {isGameOver(session.stopped, r.board, OperationOf(st))} :
                       /\ board' = r.board
                       /\ operation' = over.operation
                       /\ session' = [session EXCEPT
                                        !.score = scoreAfter(@, st.notified, 1),
                                        !.stopped = over.over,
                                        !.rendering = TRUE,
                                        !.renders.moveInDirection = @ + 1]
                       /\ call' = SessionCall("moveInDirection", d, st.moves, st.notified, r.slot)
    /\ UNCHANGED <<listener, board2, run, display>>

reset ==
    /\ session.started /\ Pending < MaxRenders
    /\ \E b \in initGameBoard(clear(board), INITIAL_BLOCK_COUNT) :
       \E over \in {isGameOver(FALSE, b, operation)} :
          /\ board' = b
          /\ operation' = over.operation
          /\ session' = [session EXCEPT
                           !.score = 0,
                           !.stopped = over.over,
                           !.rendering = (b.blockCount # 0),
                           !.renders.reset = @ + 1]
          /\ call' = HandlerCall("reset", <<>>)
    /\ UNCHANGED <<listener, board2, run, display>>

\* the render awaited by handler h settles: rendering is turned off and the
\* handler resumes; reset and moveInDirection end with saveGameStates(),
\* whose output is recorded as the argument of the call
animationEnd(h) ==
    /\ session.renders[h] > 0
    /\ session' = [session EXCEPT !.renders[h] = @ - 1, !.rendering = FALSE]
    /\ call' = HandlerCall("animationEnd", IF h = "startGame" THEN <<>> ELSE <<saveGameStates>>)
    /\ UNCHANGED <<board, operation, listener, board2, run, display>>

SessionNext ==
    \/ \E stored \in StoredStates(board) : startGame(stored)
    \/ \E d \in Direction : moveInDirection(d)
    \/ reset
    \/ \E h \in Handlers : animationEnd(h)

SessionSpec == SessionInit /\ [][SessionNext]_vars

\* ---------------------------------------------------------------- display
\* The cells of the page: CellManager (src/js/cell-manager.js) over the
\* DomRecycler (src/js/dom-recycler.js), the render functions of main.js and
\* the animation events the browser delivers to their listeners.
\* A div of the recycler: `removed` is DomRecyclerEntry.#removed (display:
\* none), `at` the base cell whose left/top the div was given, `classes` its
\* class list without game-block, `moving` a running left/top transition,
\* `animation` the keyframes that are running and will end.  A transition or
\* an animation is marked with the script that started it (display.script, a
\* number per handler call and per render): what one script started at one
\* time with one duration ends in one frame, so moving and since hold that
\* number, 0 when nothing is running.
NewElement ==
    [removed |-> FALSE, at |-> NoPoint, classes |-> {}, moving |-> 0, animation |-> "",
     since |-> 0]
\* the animation that ends which styles.css gives a .game-block with these
\* classes: .spawned is the last rule, .bounce-merged comes after .new-game
Animation(classes) ==
    IF "spawned" \in classes THEN "fade-in"
    ELSE IF "bounce-merged" \in classes THEN "bounce-merged-block"
    ELSE IF "new-game" \in classes THEN "fade-in"
    ELSE ""
\* element.classList.add / remove: an animation starts when the computed
\* animation of a displayed element changes
classListSet(d, e, classes) ==
    LET el == d.elements[e]
    IN [d EXCEPT !.elements[e] =
          IF el.removed \/ Animation(classes) = Animation(el.classes)
          THEN [el EXCEPT !.classes = classes]
          ELSE [el EXCEPT !.classes = classes,
                          !.animation = Animation(classes),
                          !.since = IF Animation(classes) = "" THEN 0 ELSE d.script]]
classListAdd(d, e, c) == classListSet(d, e, d.elements[e].classes \cup {c})
classListRemove(d, e, c) == classListSet(d, e, d.elements[e].classes \ {c})

\* DomRecyclerEntry.remove: #addToBackup hides the div and pushes the entry,
\* the 'removed' listener of the CellManager empties the class list
DomRecyclerEntry_remove(d, e) ==
    IF d.elements[e].removed THEN d
    ELSE [d EXCEPT !.elements[e] = [@ EXCEPT !.removed = TRUE, !.classes = {},
                                             !.moving = 0, !.animation = "", !.since = 0],
                   !.backup = Append(@, e)]
\* DomRecycler.acquire: the entry popped from #backup and restored, or a new
\* div; the result is the display and the entry
DomRecycler_acquire(d) ==
    IF d.backup = <<>>
    THEN [display |-> [d EXCEPT !.elements = Append(@, NewElement)],
          cell |-> Len(d.elements) + 1]
    ELSE LET e == d.backup[Len(d.backup)]
             el == d.elements[e]
         IN [display |-> [d EXCEPT !.backup = SubSeq(@, 1, Len(@) - 1),
                                   !.elements[e] =
                                      [el EXCEPT !.removed = FALSE,
                                                 !.animation = Animation(el.classes),
                                                 !.since = IF Animation(el.classes) = "" THEN 0
                                                           ELSE d.script]],
             cell |-> e]

\* #movingCells.get(point): the entry, 0 for undefined
CellManager_get(d, point) ==
    LET found == {i \in 1..Len(d.cells) : d.cells[i].point = point}
    IN IF found = {} THEN 0 ELSE d.cells[CHOOSE i \in found : TRUE].cell
CellManager_has(d, point) == CellManager_get(d, point) # 0
\* Map.delete and Map.set: a key that is set again keeps its place
MapDelete(cells, point) == SelectSeq(cells, LAMBDA c : c.point # point)
MapPut(cells, point, cell) ==
    IF \E i \in 1..Len(cells) : cells[i].point = point
    THEN [i \in 1..Len(cells) |->
            IF cells[i].point = point THEN [point |-> point, cell |-> cell] ELSE cells[i]]
    ELSE Append(cells, [point |-> point, cell |-> cell])
\* CellManager.create: the display and the new cell, 0 for undefined
CellManager_create(d, point) ==
    IF CellManager_has(d, point) THEN [display |-> d, cell |-> 0]
    ELSE LET a == DomRecycler_acquire(d)
         IN [display |-> [a.display EXCEPT !.elements[a.cell].at = point,
                                           !.cells = Append(@, [point |-> point, cell |-> a.cell])],
             cell |-> a.cell]
\* CellManager.move: the display and the entry the clean-up function removes,
\* 0 for no clean-up function
CellManager_move(d, from, to) ==
    LET cell == CellManager_get(d, from)
        toCell == CellManager_get(d, to)
    IN IF cell = 0 THEN [display |-> d, cleanUp |-> 0]
       ELSE LET el == d.elements[cell]
            IN [display |-> [d EXCEPT
                               !.elements[cell] =
                                  [el EXCEPT !.at = to,
                                             !.moving = IF ~el.removed /\ el.at # to
                                                        THEN d.script ELSE @],
                               !.cells = MapPut(MapDelete(@, from), to, cell)],
                cleanUp |-> toCell]
\* CellManager.clear
RECURSIVE removeCells(_, _, _)
removeCells(d, cells, i) ==
    IF i > Len(cells) THEN d
    ELSE removeCells(DomRecyclerEntry_remove(d, cells[i].cell), cells, i + 1)
CellManager_clear(d) == [removeCells(d, d.cells, 1) EXCEPT !.cells = <<>>]

\* Board.getOccupiedSlots: row-major
getOccupiedSlots(b) ==
    LET RECURSIVE slots(_)
        slots(k) == IF k >= getSize(b) THEN <<>>
                    ELSE LET p == Point(k \div b.columnCount, k % b.columnCount)
                         IN (IF getBlock(b, p[1], p[2]) # Empty THEN <<p>> ELSE <<>>) \o slots(k + 1)
    IN slots(0)

\* A render: the promise of renderInitialGameBoard or renderGameBoard that a
\* handler awaits.  `stage` names the listener it waits in ("new-game":
\* onAnimationEnd of renderInitialGameBoard, "transition": onTransitionEnd,
\* "bounce": onAnimationEnd of handleMergedCells, "spawned": onAnimationEnd
\* of spawnNewCell), `listening` the elements that listener is attached to.
Render(handler, stage, remaining, spawned, script) ==
    [handler |-> handler, stage |-> stage, remaining |-> remaining, listening |-> {},
     mergeds |-> <<>>, spawned |-> spawned, script |-> script]
\* resolve() of render i, and the handler's next statements: rendering = false
\* (saveGameStates writes outside the page)
settle(st, i) ==
    [display |-> [st.display EXCEPT !.renders[i].stage = "settled", !.renders[i].listening = {}],
     session |-> [st.session EXCEPT !.rendering = FALSE,
                                    !.renders[st.display.renders[i].handler] = @ - 1]]
\* spawnNewCell for render i
spawnNewCell(st, i) ==
    LET c == CellManager_create(st.display, st.display.renders[i].spawned)
    IN IF c.cell = 0 THEN settle([st EXCEPT !.display = c.display], i)
       ELSE [st EXCEPT !.display =
               [classListAdd(c.display, c.cell, "spawned")
                  EXCEPT !.renders[i].stage = "spawned", !.renders[i].listening = {c.cell}]]
\* the forEach of handleMergedCells from entry k on
RECURSIVE bounceMerged(_, _, _)
bounceMerged(d, mergeds, k) ==
    IF k > Len(mergeds) THEN d
    ELSE LET cleaned == IF mergeds[k].cleanUp = 0 THEN d
                        ELSE DomRecyclerEntry_remove(d, mergeds[k].cleanUp)
         IN bounceMerged(classListAdd(cleaned, mergeds[k].cell, "bounce-merged"), mergeds, k + 1)
\* handleMergedCells for render i, then onMergeEnd and spawnNewCell when
\* there is nothing to wait for
handleMergedCells(st, i) ==
    LET r == st.display.renders[i]
    IN IF Len(r.mergeds) = 0 THEN spawnNewCell(st, i)
       ELSE [st EXCEPT !.display =
               [bounceMerged(st.display, r.mergeds, 1)
                  EXCEPT !.renders[i].stage = "bounce",
                         !.renders[i].remaining = Len(r.mergeds),
                         !.renders[i].listening = {r.mergeds[k].cell : k \in 1..Len(r.mergeds)}]]

\* the loop of renderInitialGameBoard over occupieds from k on, for the render
\* at index i; a point that has a cell already ends the executor
RECURSIVE createCells(_, _, _, _)
createCells(d, i, occupieds, k) ==
    IF k > Len(occupieds)
    THEN IF d.spawnedPoint # NoPoint /\ CellManager_has(d, d.spawnedPoint)
         THEN classListAdd(d, CellManager_get(d, d.spawnedPoint), "spawned")
         ELSE d
    ELSE LET c == CellManager_create(d, occupieds[k])
         IN IF c.cell = 0 THEN [d EXCEPT !.renders[i].remaining = @ - 1]
            ELSE createCells([classListAdd(c.display, c.cell, "new-game")
                                EXCEPT !.renders[i].listening = @ \cup {c.cell}],
                             i, occupieds, k + 1)
\* renderInitialGameBoard, called by `handler` on board b
renderInitialGameBoard(st, b, handler) ==
    LET occupieds == getOccupiedSlots(b)
        i == Len(st.display.renders) + 1
    IN IF Len(occupieds) = 0 THEN [st EXCEPT !.session.rendering = FALSE]
       ELSE [display |-> createCells([st.display EXCEPT !.renders =
                                        Append(@, Render(handler, "new-game", Len(occupieds), NoPoint,
                                                         st.display.script))],
                                     i, occupieds, 1),
             session |-> [st.session EXCEPT !.rendering = TRUE, !.renders[handler] = @ + 1]]

\* the loop of renderGameBoard over the move map from k on, for the render at
\* index i
RECURSIVE moveCells(_, _, _, _)
moveCells(d, i, moves, k) ==
    IF k > Len(moves) THEN d
    ELSE LET cell == CellManager_get(d, moves[k].from)
             m == CellManager_move(d, moves[k].from, moves[k].to)
         IN IF cell = 0
            THEN moveCells([d EXCEPT !.renders[i].remaining = @ - 1], i, moves, k + 1)
            ELSE moveCells([m.display EXCEPT
                              !.renders[i].listening = @ \cup {cell},
                              !.renders[i].mergeds =
                                 IF moves[k].merged
                                 THEN Append(@, [cell |-> cell, cleanUp |-> m.cleanUp])
                                 ELSE @],
                           i, moves, k + 1)
\* renderGame(moves, spawned) up to its await, called by moveInDirection
renderGame(st, moves, spawned) ==
    LET i == Len(st.display.renders) + 1
        started == [display |-> moveCells([st.display EXCEPT !.renders =
                                             Append(@, Render("moveInDirection", "transition",
                                                              Len(moves), spawned,
                                                              st.display.script))],
                                          i, moves, 1),
                    session |-> [st.session EXCEPT !.rendering = TRUE,
                                                   !.renders.moveInDirection = @ + 1]]
    IN IF started.display.renders[i].listening = {} THEN settle(started, i) ELSE started
\* removeTemporaryVisuals
removeTemporaryVisuals(d) ==
    IF d.spawnedPoint # NoPoint /\ CellManager_has(d, d.spawnedPoint)
    THEN classListRemove(d, CellManager_get(d, d.spawnedPoint), "spawned")
    ELSE d

\* the listener of render i called with an event on element e: animation is
\* evt.animationName, "" for a transitionend of left or top
listenerCalled(st, i, e, animation) ==
    LET r == st.display.renders[i]
        heard == [st EXCEPT !.display.renders[i].listening = @ \ {e},
                            !.display.renders[i].remaining = @ - 1,
                            !.display.script = r.script]
    IN CASE r.stage = "transition" /\ animation = "" ->
              IF r.remaining - 1 # 0 THEN heard ELSE handleMergedCells(heard, i)
         [] r.stage = "new-game" /\ animation = "fade-in" ->
              LET faded == [heard EXCEPT !.display = classListRemove(@, e, "new-game")]
              IN IF r.remaining - 1 # 0 THEN faded ELSE settle(faded, i)
         [] r.stage = "bounce" /\ animation = "bounce-merged-block" ->
              LET bounced == [heard EXCEPT !.display = classListRemove(@, e, "bounce-merged")]
              IN IF r.remaining - 1 # 0 THEN bounced ELSE spawnNewCell(bounced, i)
         [] r.stage = "spawned" /\ animation = "fade-in" -> settle(heard, i)
         [] OTHER -> st
\* the dispatch of an event on e to the listeners attached when it began,
\* oldest first
RECURSIVE dispatch(_, _, _, _, _)
dispatch(st, attached, i, e, animation) ==
    IF i > Len(attached) THEN st
    ELSE dispatch(IF attached[i] THEN listenerCalled(st, i, e, animation) ELSE st,
                  attached, i + 1, e, animation)
\* an event on e: its listeners attached when the dispatch begins are called
eventOn(st, e, animation) ==
    LET renders == st.display.renders
        attached == [i \in 1..Len(renders) |->
                       /\ e \in renders[i].listening
                       /\ (renders[i].stage = "transition") <=> (animation = "")]
    IN dispatch(st, attached, 1, e, animation)
\* element e runs the transition (animation = "") or the animation that
\* script started
Running(d, e, script, animation) ==
    IF animation = "" THEN d.elements[e].moving = script
    ELSE d.elements[e].animation = animation /\ d.elements[e].since = script
\* the frame in which they end: the events are sent element by element in
\* document order, to an element whose transition or animation was not
\* cancelled by a listener called before
RECURSIVE endFrom(_, _, _, _)
endFrom(st, e, script, animation) ==
    IF e > Len(st.display.elements) THEN st
    ELSE IF ~Running(st.display, e, script, animation)
    THEN endFrom(st, e + 1, script, animation)
    ELSE LET ended == IF animation = ""
                      THEN [st EXCEPT !.display.elements[e].moving = 0]
                      ELSE [st EXCEPT !.display.elements[e].animation = "",
                                      !.display.elements[e].since = 0]
         IN endFrom(eventOn(ended, e, animation), e + 1, script, animation)
\* once the scripts have run: the renders still awaited
Unsettled(d) ==
    [d EXCEPT !.renders = SelectSeq(@, LAMBDA r : r.stage # "settled"), !.script = 0]

Page == [display |-> display, session |-> session]
Elements == 1..Len(display.elements)
RoomFor(n) == Len(display.elements) - Len(display.backup) + n <= MaxElements
Scripts == 1..(MaxRenders + 2 * MaxElements)
\* a number no render and no running transition or animation carries
NewScript ==
    CHOOSE k \in Scripts :
       /\ \A i \in 1..Len(display.renders) : display.renders[i].script # k
       /\ \A e \in Elements : display.elements[e].moving # k /\ display.elements[e].since # k
       /\ \A j \in 1..(k - 1) :
             \/ \E i \in 1..Len(display.renders) : display.renders[i].script = j
             \/ \E e \in Elements : display.elements[e].moving = j \/ display.elements[e].since = j
Scripted == [Page EXCEPT !.display.script = NewScript]

Display_startGame ==
    /\ ~session.started
    /\ \E b \in initGameBoard(board, INITIAL_BLOCK_COUNT) :
       \E over \in {isGameOver(session.stopped, b, operation)} :
       \E st \in {renderInitialGameBoard(
                     [Scripted EXCEPT !.session.started = TRUE, !.session.stopped = over.over],
                     b, "startGame")} :
          /\ board' = b
          /\ operation' = over.operation
          /\ session' = st.session
          /\ display' = Unsettled(st.display)
          /\ call' = HandlerCall("startGame", <<NoSave>>)
    /\ UNCHANGED <<listener, board2, run>>

\* resetStates and reset up to the await
Display_reset ==
    /\ session.started /\ Pending < MaxRenders /\ RoomFor(INITIAL_BLOCK_COUNT)
    /\ display.resets < MaxResets
    /\ \E b \in initGameBoard(clear(board), INITIAL_BLOCK_COUNT) :
       \E over \in {isGameOver(FALSE, b, operation)} :
       \E st \in {renderInitialGameBoard(
                     [display |-> [CellManager_clear(Scripted.display)
                                     EXCEPT !.spawnedPoint = NoPoint, !.resets = @ + 1],
                      session |-> [session EXCEPT !.score = 0, !.stopped = over.over]],
                     b, "reset")} :
          /\ board' = b
          /\ operation' = over.operation
          /\ session' = st.session
          /\ display' = Unsettled(st.display)
          /\ call' = HandlerCall("reset", <<>>)
    /\ UNCHANGED <<listener, board2, run>>

Display_moveInDirection(d) ==
    /\ session.started
    /\ IF session.rendering \/ session.stopped
       THEN /\ call' = SessionCall("moveInDirection", d, <<>>, <<>>, NoPoint)
            /\ UNCHANGED <<board, operation, session, display>>
       ELSE \E moved \in {execute(board, prepare(operation, listener), d, FALSE)} :
            IF noMoves(moved.moves)
            THEN /\ board' = moved.board
                 /\ operation' = OperationOf(moved)
                 /\ call' = SessionCall("moveInDirection", d, moved.moves, moved.notified, NoPoint)
                 /\ UNCHANGED <<session, display>>
            ELSE /\ Total(moved.board) <= MaxTotal /\ Pending < MaxRenders /\ RoomFor(1)
                 /\ \E r \in spawnBlockWeightedOn(moved.board, SPAWNED_ITEMS, SPAWNED_WEIGHTS) :
                    \E over \in {isGameOver(session.stopped, r.board, OperationOf(moved))} :
                    \E st \in {renderGame(
                                 [display |-> [removeTemporaryVisuals(Scripted.display)
                                                 EXCEPT !.spawnedPoint = r.slot],
                                  session |-> [session EXCEPT
                                                 !.score = scoreAfter(@, moved.notified, 1),
                                                 !.stopped = over.over]],
                                 moved.moves, r.slot)} :
                       /\ board' = r.board
                       /\ operation' = over.operation
                       /\ session' = st.session
                       /\ display' = Unsettled(st.display)
                       /\ call' = SessionCall("moveInDirection", d, moved.moves,
                                              moved.notified, r.slot)
    /\ UNCHANGED <<listener, board2, run>>

\* what the handlers resumed by an event wrote outside the page
Saved(after) ==
    IF after.session.renders.reset < session.renders.reset
       \/ after.session.renders.moveInDirection < session.renders.moveInDirection
    THEN <<saveGameStates>> ELSE <<>>
\* the transitions that script started end
transitionend(script) ==
    /\ \E e \in Elements : Running(display, e, script, "")
    /\ \E st \in {endFrom(Page, 1, script, "")} :
          /\ session' = st.session
          /\ display' = Unsettled(st.display)
          /\ call' = HandlerCall("transitionend", Saved(st))
    /\ UNCHANGED <<board, operation, listener, board2, run>>
\* the animations of one name that script started end
animationend(script, animation) ==
    /\ \E e \in Elements : Running(display, e, script, animation)
    /\ \E st \in {endFrom(Page, 1, script, animation)} :
          /\ session' = st.session
          /\ display' = Unsettled(st.display)
          /\ call' = HandlerCall("animationend", Saved(st))
    /\ UNCHANGED <<board, operation, listener, board2, run>>

DisplayNext ==
    \/ Display_startGame
    \/ \E d \in Direction : Display_moveInDirection(d)
    \/ Display_reset
    \/ \E k \in Scripts : transitionend(k)
    \/ \E k \in Scripts : \E a \in {"fade-in", "bounce-merged-block"} : animationend(k, a)

\* the page with a board of one row
DisplayInit == SessionInit /\ board.rowCount = 1 /\ board.columnCount = MaxCells - 1

DisplaySpec == DisplayInit /\ [][DisplayNext]_vars

\* ------------------------------------------------------------------ utils
\* randomItemWeighted called on its own: the arrays handed to it and the
\* value Math.random() * totalWeight took
WeightedInputs ==
    {<<SPAWNED_ITEMS, weights>> : weights \in WeightArrays}
        \cup {<<(<<2, 4, 8>>), (<<3, 2, 1>>)>>}

UtilsInit ==
    /\ board = NoBoard
    /\ operation = [emptyCount |-> 0, isDstMerged |-> FALSE, listener |-> FALSE]
    /\ listener = FALSE
    /\ board2 = NoBoard
    /\ session = NoSession
    /\ run = NoRun
    /\ display = NoDisplay
    /\ call = Call("new", UP, board, <<>>, <<>>, FALSE, NoPoint)

Utils_randomItemWeighted(items, weights, randomWeight) ==
    /\ call' = [Call("randomItemWeighted", UP, board, <<>>, <<>>, FALSE, NoPoint)
                   EXCEPT !.args = <<items, weights, randomWeight>>,
                          !.result = randomItemWeighted(items, weights, randomWeight)]
    /\ UNCHANGED <<board, operation, listener, board2, session, run, display>>

UtilsNext ==
    \E input \in WeightedInputs : \E r \in Draws(input[2]) :
       Utils_randomItemWeighted(input[1], input[2], r)

UtilsSpec == UtilsInit /\ [][UtilsNext]_vars

\* ============================================================ properties
\* Lines as the slide sees them: line l of direction d, cells counted from
\* the destination edge (0 is the cell at the edge).
LineCount(b, d) == IF d \in {UP, DOWN} THEN b.columnCount ELSE b.rowCount
LineLen(b, d) == IF d \in {UP, DOWN} THEN b.rowCount ELSE b.columnCount
LinePoint(b, d, l, i) ==
    CASE d = UP -> Point(i, l)
      [] d = DOWN -> Point(b.rowCount - 1 - i, l)
      [] d = LEFT -> Point(l, i)
      [] d = RIGHT -> Point(l, b.columnCount - 1 - i)
ValueAt(b, p) == b.blocks[p[1] * b.columnCount + p[2] + 1]
Line(b, d, l) == [i \in 1..LineLen(b, d) |-> ValueAt(b, LinePoint(b, d, l, i - 1))]
Points(b) == (0..(b.rowCount - 1)) \X (0..(b.columnCount - 1))
Dist(b, d, p) ==
    CASE d = UP -> p[1]
      [] d = DOWN -> b.rowCount - 1 - p[1]
      [] d = LEFT -> p[2]
      [] d = RIGHT -> b.columnCount - 1 - p[2]
SameLine(d, p, q) == IF d \in {UP, DOWN} THEN p[2] = q[2] ELSE p[1] = q[1]
Moved == call.op = "moveBlocks"
Probed == call.op = "tryMoveBlocks"
MoveSet == {call.moves[i] : i \in 1..Len(call.moves)}

\* The reference 2048 slide of one line (cells from the destination edge).
NonEmpty(v) == v # Empty
RECURSIVE MergePairs(_)
MergePairs(s) ==
    IF Len(s) < 2 THEN s
    ELSE IF s[1] = s[2] THEN <<s[1] + s[2]>> \o MergePairs(Tail(Tail(s)))
    ELSE <<s[1]>> \o MergePairs(Tail(s))
RefSlide(line) ==
    LET tiles == MergePairs(SelectSeq(line, NonEmpty))
    IN [i \in 1..Len(line) |-> IF i <= Len(tiles) THEN tiles[i] ELSE Empty]

\* C1: after moveBlocks(d) every line of the grid is the reference 2048
\* slide of that line's contents before the move (empty cells dropped,
\* adjacent equal pairs summed once from the destination edge, the rest
\* empty), and the dimensions are those before the move.
C1_ReferenceSlide ==
    Moved =>
        /\ board.rowCount = call.before.rowCount
        /\ board.columnCount = call.before.columnCount
        /\ \A l \in 0..(LineCount(board, call.direction) - 1) :
              Line(board, call.direction, l) = RefSlide(Line(call.before, call.direction, l))
\* a move on a two-line grid that both relocated and merged tiles
C1_Witness ==
    /\ Moved
    /\ call.before.rowCount = 2 /\ call.before.columnCount = 2
    /\ \E m \in MoveSet : m.merged
    /\ \E m \in MoveSet : ~m.merged

\* C2: within one moveBlocks no coordinate is the `to` of two merged
\* records, no merged record starts from the coordinate an earlier merged
\* record ended on (the product of a merge is never the moving operand of a
\* later merge), and the lines [2,2,4] and [2,2,2] slid toward their first
\* cell end as [4,4,_] and [4,2,_].
C2_NoDoubleMerge ==
    Moved =>
        /\ \A i, j \in 1..Len(call.moves) :
              (i < j /\ call.moves[i].merged /\ call.moves[j].merged)
                  => /\ call.moves[j].to # call.moves[i].to
                     /\ call.moves[j].from # call.moves[i].to
        /\ (call.direction = LEFT /\ call.before.blocks = <<2, 2, 4>> /\ call.before.rowCount = 1)
              => board.blocks = <<4, 4, Empty>>
        /\ (call.direction = LEFT /\ call.before.blocks = <<2, 2, 2>> /\ call.before.rowCount = 1)
              => board.blocks = <<4, 2, Empty>>
\* the row [2,2,4] was slid LEFT
C2_Witness ==
    /\ Moved /\ call.direction = LEFT
    /\ call.before.rowCount = 1 /\ call.before.blocks = <<2, 2, 4>>
    /\ board.blocks = <<4, 4, Empty>>

Row4(b, blocks) == b.rowCount = 1 /\ b.columnCount = 4 /\ b.blocks = blocks

\* C3 as stated: the row [2,2,2,2] slid LEFT gives [4,4,_,_] and exactly two
\* move records, both merged.
C3_Original ==
    (Moved /\ call.direction = LEFT /\ Row4(call.before, <<2, 2, 2, 2>>))
        => /\ board.blocks = <<4, 4, Empty, Empty>>
           /\ Len(call.moves) = 2
           /\ \A m \in MoveSet : m.merged
\* C3 amended: the row [2,2,2,2] slid LEFT gives [4,4,_,_] and exactly three
\* move records in traversal order: (0,1)->(0,0) merged, (0,2)->(0,1) not
\* merged, (0,3)->(0,1) merged; exactly two of them are merged.
C3_TwoMergesThreeRecords ==
    (Moved /\ call.direction = LEFT /\ Row4(call.before, <<2, 2, 2, 2>>))
        => /\ board.blocks = <<4, 4, Empty, Empty>>
           /\ call.moves = <<[from |-> <<0, 1>>, to |-> <<0, 0>>, merged |-> TRUE],
                             [from |-> <<0, 2>>, to |-> <<0, 1>>, merged |-> FALSE],
                             [from |-> <<0, 3>>, to |-> <<0, 1>>, merged |-> TRUE]>>
           /\ Cardinality({m \in MoveSet : m.merged}) = 2
\* the row [2,2,2,2] was slid LEFT
C3_Witness ==
    /\ Moved /\ call.direction = LEFT /\ Row4(call.before, <<2, 2, 2, 2>>)
    /\ Len(call.moves) = 3

\* C4 as stated: the row [2,_,_,4] slid RIGHT gives an empty move map.
C4_Original ==
    (Moved /\ call.direction = RIGHT /\ Row4(call.before, <<2, Empty, Empty, 4>>))
        => call.moves = <<>>
\* C4 amended: the row [2,_,_,4] slid RIGHT gives [_,_,2,4] and exactly one
\* move record, (0,0)->(0,2) not merged; the row [_,_,2,4], which is packed
\* against the right edge, slid RIGHT gives an empty move map.
C4_UnpackedRowMoves ==
    /\ (Moved /\ call.direction = RIGHT /\ Row4(call.before, <<2, Empty, Empty, 4>>))
          => /\ board.blocks = <<Empty, Empty, 2, 4>>
             /\ call.moves = <<[from |-> <<0, 0>>, to |-> <<0, 2>>, merged |-> FALSE]>>
    /\ (Moved /\ call.direction = RIGHT /\ Row4(call.before, <<Empty, Empty, 2, 4>>))
          => /\ board.blocks = <<Empty, Empty, 2, 4>>
             /\ call.moves = <<>>
\* the row [2,_,_,4] was slid RIGHT
C4_Witness ==
    /\ Moved /\ call.direction = RIGHT /\ Row4(call.before, <<2, Empty, Empty, 4>>)
    /\ board.blocks = <<Empty, Empty, 2, 4>>

\* Where the tile that was at p before the move is after it.
Final(p) ==
    IF \E m \in MoveSet : m.from = p
    THEN (CHOOSE m \in MoveSet : m.from = p).to
    ELSE p
MergedInto(p, q) == \E m \in MoveSet : m.from = p /\ m.merged /\ m.to = q
\* C5: moveBlocks keeps the order of the tiles of a line: a tile that was
\* nearer the destination edge than another ends in the same line strictly
\* nearer the edge, or on the same coordinate when the other merged into
\* it; and the row [2,4,4,_] slid LEFT gives [2,8,_,_].
C5_OrderPreserved ==
    Moved =>
        /\ \A a, b \in Points(call.before) :
              ( /\ ValueAt(call.before, a) # Empty
                /\ ValueAt(call.before, b) # Empty
                /\ SameLine(call.direction, a, b)
                /\ Dist(call.before, call.direction, a) < Dist(call.before, call.direction, b) )
              => /\ SameLine(call.direction, Final(a), Final(b))
                 /\ \/ Dist(board, call.direction, Final(a)) < Dist(board, call.direction, Final(b))
                    \/ Final(a) = Final(b) /\ MergedInto(b, Final(a))
        /\ (call.direction = LEFT /\ Row4(call.before, <<2, 4, 4, Empty>>))
              => board.blocks = <<2, 8, Empty, Empty>>
\* a tile stopped behind a tile it cannot merge with, with an empty cell
\* beyond that tile before the move
C5_Witness ==
    /\ Moved /\ call.direction = LEFT /\ Row4(call.before, <<Empty, 2, Empty, 4>>)
    /\ board.blocks = <<2, 4, Empty, Empty>>

\* The move records of the reference slide of line l, scanning the cells
\* from the destination edge: outLen tiles are stacked so far, the last of
\* them holds lastVal and lastMerged tells whether it is a merge product.
RECURSIVE RefScan(_, _, _, _, _, _, _)
RefScan(b, d, l, i, outLen, lastVal, lastMerged) ==
    IF i >= LineLen(b, d) THEN {}
    ELSE LET v == ValueAt(b, LinePoint(b, d, l, i))
         IN IF v = Empty THEN RefScan(b, d, l, i + 1, outLen, lastVal, lastMerged)
            ELSE IF outLen > 0 /\ lastVal = v /\ ~lastMerged
            THEN {[from |-> LinePoint(b, d, l, i), to |-> LinePoint(b, d, l, outLen - 1),
                   merged |-> TRUE]}
                 \cup RefScan(b, d, l, i + 1, outLen, v + v, TRUE)
            ELSE (IF i # outLen
                  THEN {[from |-> LinePoint(b, d, l, i), to |-> LinePoint(b, d, l, outLen),
                         merged |-> FALSE]}
                  ELSE {})
                 \cup RefScan(b, d, l, i + 1, outLen + 1, v, FALSE)
RefMoves(b, d) == UNION {RefScan(b, d, l, 0, 0, Empty, FALSE) : l \in 0..(LineCount(b, d) - 1)}
\* C6: the move map of moveBlocks holds exactly the records of the reference
\* slide: one record, keyed by its pre-move coordinate, for every tile that
\* changed coordinate or merged into another tile, with `to` the occupied
\* coordinate where it ended, and none for a tile that stayed; the row
\* [2,_,4,_] slid LEFT gives only (0,2)->(0,1) not merged.
C6_ExactMoveRecords ==
    Moved =>
        /\ MoveSet = RefMoves(call.before, call.direction)
        /\ Cardinality({m.from : m \in MoveSet}) = Len(call.moves)
        /\ \A m \in MoveSet :
              /\ ValueAt(call.before, m.from) # Empty
              /\ ValueAt(board, m.to) # Empty
              /\ m.from # m.to
        /\ (call.direction = LEFT /\ Row4(call.before, <<2, Empty, 4, Empty>>))
              => call.moves = <<[from |-> <<0, 2>>, to |-> <<0, 1>>, merged |-> FALSE]>>
\* the row [2,_,4,_] was slid LEFT
C6_Witness ==
    /\ Moved /\ call.direction = LEFT /\ Row4(call.before, <<2, Empty, 4, Empty>>)
    /\ board.blocks = <<2, 4, Empty, Empty>>

\* C7: moveBlocks returns an empty move map exactly when the grid after the
\* call equals the grid before it; on an empty grid the map is empty and
\* the grid stays empty.
C7_EmptyMapIffUnchanged ==
    Moved =>
        /\ (call.moves = <<>>) <=> (board = call.before)
        /\ call.before.blockCount = 0 => (call.moves = <<>> /\ board = call.before)
\* a move that changed nothing on a grid that holds tiles
C7_Witness ==
    /\ Moved /\ call.moves = <<>>
    /\ call.before.blockCount > 0 /\ call.before.blockCount < getSize(call.before)

\* C8: tryMoveBlocks leaves the live board (dimensions, cells, block count)
\* as it was.
C8_ProbeLeavesBoard == Probed => board = call.before
\* a probe of a direction that would move
C8_Witness == Probed /\ call.would /\ call.before.blockCount > 1

\* C9: tryMoveBlocks(d) returns true exactly when moveBlocks(d) on the same
\* grid would return a non-empty move map.
C9_ProbeAgreesWithMove ==
    Probed =>
        (call.would <=>
            Len(execute(call.before, prepare(operation, listener), call.direction, FALSE).moves) # 0)
\* a probe that stopped early: the full move has more than one record
C9_Witness ==
    /\ Probed /\ call.would
    /\ Len(execute(call.before, prepare(operation, listener), call.direction, FALSE).moves) > 1

Full(b) == \A p \in Points(b) : ValueAt(b, p) # Empty
Adjacent(p, q) ==
    \/ p[1] = q[1] /\ (p[2] = q[2] + 1 \/ q[2] = p[2] + 1)
    \/ p[2] = q[2] /\ (p[1] = q[1] + 1 \/ q[1] = p[1] + 1)
NoAdjacentEqual(b) ==
    \A p, q \in Points(b) : Adjacent(p, q) => ValueAt(b, p) # ValueAt(b, q)
\* C10: on a full grid with no two equal values in adjacent cells,
\* tryMoveBlocks returns false, whatever the direction.
C10_FullAlternatingStuck ==
    (Probed /\ Full(call.before) /\ NoAdjacentEqual(call.before)) => ~call.would
\* the 2x2 checkerboard of 2 and 4 was probed
C10_Witness ==
    /\ Probed /\ call.direction = DOWN
    /\ call.before.rowCount = 2 /\ call.before.columnCount = 2
    /\ call.before.blocks = <<2, 4, 4, 2>>
    /\ ~call.would

\* C11: the merge listener is never invoked during tryMoveBlocks, also when
\* the probed direction merges tiles: the probe reports no merged value, so
\* it adds nothing to the score.
C11_ProbeNeverNotifies == Probed => call.notified = <<>>
\* a probe, with a listener registered, whose first move is a merge
C11_Witness ==
    /\ Probed /\ listener /\ call.would
    /\ execute(call.before, prepare(operation, FALSE), call.direction, TRUE).moves[1].merged

IsMerged(m) == m.merged
RECURSIVE SumReported(_, _)
SumReported(notified, i) ==
    IF i = 0 THEN 0 ELSE notified[i].result.block + SumReported(notified, i - 1)
Receiver == IF call.target = "board" THEN call.before ELSE call.before2
Writes == {"setBlockAt", "removeBlockAt", "clear", "moveBlocks"}
SameGrid(b1, b2) ==
    /\ b1.rowCount = b2.rowCount /\ b1.columnCount = b2.columnCount
    /\ \A i \in 0..(b1.rowCount - 1), j \in 0..(b1.columnCount - 1) :
          getBlock(b1, i, j) = getBlock(b2, i, j)
    /\ b1.blockCount = b2.blockCount

\* C13: after any sequence of setBlockAt, removeBlockAt, clear, Board.copy,
\* Board.fromJson, spawnBlock and moveBlocks, getBlockCount() of each board is
\* the number of coordinates that hold a tile, counted cell by cell.
C13_CountIsEnumeration ==
    /\ board.blockCount = Occupied(board.blocks)
    /\ board2.blockCount = Occupied(board2.blocks)
\* a move that merged two tiles on the second board
C13_Witness ==
    /\ call.op = "moveBlocks" /\ call.target = "board2"
    /\ \E i \in 1..Len(call.moves) : call.moves[i].merged
    /\ board2.blockCount = call.before2.blockCount - 1

\* C14: blockAt and setBlockAt with row < 0, row >= rowCount, column < 0 or
\* column >= columnCount fail with an error and leave every cell and the
\* occupied count as they were, on every grid size.
C14_OutOfBoundsFails ==
    (/\ call.op \in {"blockAt", "setBlockAt"}
     /\ \/ call.args[1] < 0 \/ call.args[1] >= Receiver.rowCount
        \/ call.args[2] < 0 \/ call.args[2] >= Receiver.columnCount)
    => call.threw /\ board = call.before /\ board2 = call.before2
\* a write one row below a grid that holds a tile
C14_Witness ==
    /\ call.op = "setBlockAt" /\ call.threw
    /\ call.args[1] = call.before.rowCount /\ call.args[2] = 0
    /\ call.before.blockCount >= 1

\* C15: decoding the encoding of a board gives a board with the same
\* rowCount and columnCount, the same value or emptiness in every cell and
\* the same occupied count.
C15_RoundTrip ==
    (call.op = "fromJson" /\ call.args[1] = toJson(call.before))
    => SameGrid(board2, call.before)
\* the round trip of a board with a tile and an empty cell
C15_Witness ==
    /\ call.op = "fromJson" /\ call.args[1] = toJson(call.before)
    /\ call.before.blockCount >= 1 /\ call.before.blockCount < getSize(call.before)

\* C16 (as stated): fromJson fails on an encoded record whose values array is
\* shorter or longer than rowCount * columnCount and returns no grid.
C16_Original ==
    (/\ call.op = "fromJson"
     /\ Len(call.args[1].values) # call.args[1].rowCount * call.args[1].columnCount)
    => call.threw

C18_SpawnFillsEmptyCell ==
    (/\ call.op = "spawnBlock"
     /\ \E i \in 1..Len(call.before.blocks) : call.before.blocks[i] = Empty)
    => /\ isWithinBound(call.before, prow(call.slot), pcolumn(call.slot))
       /\ getBlock(call.before, prow(call.slot), pcolumn(call.slot)) = Empty
       /\ getBlock(board, prow(call.slot), pcolumn(call.slot)) = call.args[1]
       /\ \A p \in Points(board) : p # call.slot => ValueAt(board, p) = ValueAt(call.before, p)
       /\ board.rowCount = call.before.rowCount /\ board.columnCount = call.before.columnCount
       /\ board.blockCount = call.before.blockCount + 1
\* a spawn next to a tile, with more than one empty slot to draw from
C18_Witness ==
    /\ call.op = "spawnBlock" /\ call.slot # NoPoint
    /\ call.before.blockCount >= 1
    /\ board.blockCount < getSize(board)

\* C19: spawnBlock and spawnBlockWeighted on a full grid return no coordinate,
\* raise no error and leave every cell and the occupied count unchanged.
C19_FullGridSpawnsNothing ==
    (/\ call.op \in {"spawnBlock", "spawnBlockWeighted"}
     /\ \A i \in 1..Len(call.before.blocks) : call.before.blocks[i] # Empty)
    => call.slot = NoPoint /\ ~call.threw /\ board = call.before
\* a weighted spawn on a full grid of four cells
C19_Witness ==
    /\ call.op = "spawnBlockWeighted" /\ call.args[1] # Empty
    /\ getSize(call.before) = 4
    /\ \A i \in 1..Len(call.before.blocks) : call.before.blocks[i] # Empty

\* what game.tryMoveBlocks(d) returns on grid b
CanMove(b, d) == Len(execute(copy(b), prepare(operation, FALSE), d, TRUE).moves) # 0
\* C20: once startup has run, and so whenever a direction command, a reset or
\* startup has completed, `stopped` is true exactly when tryMoveBlocks is
\* false for all four directions on the grid; a command after which no
\* direction can move leaves the session stopped.
C20_StoppedIffNoMove ==
    session.started => (session.stopped <=> \A d \in Direction : ~CanMove(board, d))
\* a direction command that moved tiles and ended the game
C20_Witness ==
    /\ call.op = "moveInDirection" /\ Len(call.moves) > 0
    /\ ~call.sessionBefore.stopped /\ session.stopped
    /\ \A d \in Direction : ~CanMove(board, d)

\* the smallest index whose running total of weights exceeds the draw
FirstOver(weights, r) ==
    CHOOSE i \in 1..Len(weights) :
        /\ sumWeights(weights, i) > r
        /\ \A j \in 1..(i - 1) : sumWeights(weights, j) <= r
DrawsGiving(item) ==
    {r \in 0..99 : randomItemWeighted(SPAWNED_ITEMS, SPAWNED_WEIGHTS, r) = item}
\* C21: for items and weights of equal length and a draw r in [0, totalWeight),
\* randomItemWeighted returns items[i] for the smallest i with
\* weights[0] + ... + weights[i] > r; with weights [90,10] for the values
\* [2,4], 90 of the integer draws 0..99 give 2 and 10 give 4.
C21_WeightedDraw ==
    /\ (call.op = "randomItemWeighted" /\ Len(call.args[1]) = Len(call.args[2]))
          => call.result = call.args[1][FirstOver(call.args[2], call.args[3])]
    /\ Cardinality(DrawsGiving(2)) = 90
    /\ Cardinality(DrawsGiving(4)) = 10
\* the first draw that selects the second of the values [2,4]
C21_Witness ==
    /\ call.op = "randomItemWeighted"
    /\ call.args = <<SPAWNED_ITEMS, SPAWNED_WEIGHTS, 90>>
    /\ call.result = 4

\* C22 (as stated): spawnBlockWeighted called with items and weights of
\* different lengths fails with an error, returns nothing and leaves the grid
\* unchanged.
C22_Original ==
    (call.op = "spawnBlockWeighted" /\ Len(call.args[2]) # Len(call.args[3]))
    => call.threw /\ call.slot = NoPoint /\ board = call.before

\* C23: clearBoard() leaves every cell empty and the occupied count 0 with
\* rowCount and columnCount as they were; after every call on the Game the
\* dimensions are those the board was constructed with.
C23_ClearKeepsDimensions ==
    /\ call.op = "clearBoard" =>
          /\ \A p \in Points(call.before) : blockAt(board, prow(p), pcolumn(p)) = Empty
          /\ board.blockCount = 0
          /\ Len(board.blocks) = getSize(call.before)
    /\ board.rowCount = call.before.rowCount
    /\ board.columnCount = call.before.columnCount
\* a full grid of two rows and two columns was cleared
C23_Witness ==
    /\ call.op = "clearBoard"
    /\ call.before.rowCount = 2 /\ call.before.columnCount = 2
    /\ call.before.blockCount = 4
    /\ board.rowCount = 2 /\ board.blockCount = 0

\* a run of execute over the whole grid has returned
Ran == ~run.active /\ run.input # NoBoard
RanToEnd == Ran /\ ~run.earlyTerminated
VisitedPoint(k) == Point(run.visited[k].row, run.visited[k].column)
\* C24: in each direction the traversal hands every cell of the grid to
\* operate exactly once, one line after the other (columns for UP and DOWN,
\* rows for LEFT and RIGHT), and within a line from the cell at the
\* destination edge to the cell at the opposite edge: rows 0..rowCount-1 for
\* UP, rowCount-1..0 for DOWN, columns 0..columnCount-1 for LEFT,
\* columnCount-1..0 for RIGHT.
C24_TraversalOrder ==
    /\ \A k \in 1..Len(run.visited) :
          /\ VisitedPoint(k) \in Points(run.input)
          /\ Dist(run.input, run.direction, VisitedPoint(k))
                = (k - 1) % LineLen(run.input, run.direction)
          /\ \A j \in 1..(k - 1) :
                /\ VisitedPoint(j) # VisitedPoint(k)
                /\ SameLine(run.direction, VisitedPoint(j), VisitedPoint(k))
                      <=> (j - 1) \div LineLen(run.input, run.direction)
                            = (k - 1) \div LineLen(run.input, run.direction)
    /\ RanToEnd =>
          /\ Len(run.visited) = getSize(run.input)
          /\ {VisitedPoint(k) : k \in 1..Len(run.visited)} = Points(run.input)
\* a whole traversal DOWN of a grid of two rows and two columns
C24_Witness ==
    /\ RanToEnd /\ run.direction = DOWN
    /\ run.input.rowCount = 2 /\ run.input.columnCount = 2
    /\ [k \in 1..4 |-> VisitedPoint(k)] = <<Point(1, 0), Point(0, 0), Point(1, 1), Point(0, 1)>>

NewRounds == {k \in 1..Len(run.visited) : run.visited[k].isNewRound}
\* C25: the isNewRound flag handed to operate is true for the first cell
\* visited of each line and false for every other cell, so a whole traversal
\* has it true columnCount times for UP and DOWN and rowCount times for LEFT
\* and RIGHT.
C25_NewLineFlag ==
    /\ \A k \in 1..Len(run.visited) :
          run.visited[k].isNewRound
             <=> \/ k = 1
                 \/ ~SameLine(run.direction, VisitedPoint(k - 1), VisitedPoint(k))
    /\ call.op = "operate" => call.args[1] = run.visited[Len(run.visited)].isNewRound
    /\ RanToEnd =>
          Cardinality(NewRounds)
             = IF run.direction \in {UP, DOWN} THEN run.input.columnCount
               ELSE run.input.rowCount
\* a whole traversal UP of a grid of one row and three columns: every cell
\* starts a line
C25_Witness ==
    /\ RanToEnd /\ run.direction = UP
    /\ run.input.rowCount = 1 /\ run.input.columnCount = 3
    /\ NewRounds = {1, 2, 3}

\* the grid `b` after the tile at m.from went to m.to, merging if m.merged
AfterMove(b, m) ==
    [p \in Points(b) |->
        IF p = m.from THEN Empty
        ELSE IF p = m.to
        THEN (IF m.merged THEN ValueAt(b, m.from) + ValueAt(b, m.to) ELSE ValueAt(b, m.from))
        ELSE ValueAt(b, p)]
Grid(b) == [p \in Points(b) |-> ValueAt(b, p)]
\* C26: execute with earlyTerminated = true returns as soon as operate gives
\* the first move record: the map has at most one entry, which is the record
\* of the cell visited last (no later cell is handed to operate) and the
\* first record a full execute would produce, and the grid differs from the
\* input grid by that one relocation or merge, or not at all.
C26_EarlyReturn ==
    (run.earlyTerminated /\ run.input # NoBoard) =>
        /\ Len(run.moves) <= 1
        /\ Len(run.moves) = 0 =>
              /\ board = run.input
              /\ Ran => Len(run.visited) = getSize(run.input)
        /\ Len(run.moves) = 1 =>
              /\ Ran
              /\ run.moves[1].from = VisitedPoint(Len(run.visited))
              /\ run.moves[1]
                    = execute(run.input, prepare(operation, FALSE), run.direction, FALSE).moves[1]
              /\ Grid(board) = AfterMove(run.input, run.moves[1])
              /\ board.rowCount = run.input.rowCount
              /\ board.columnCount = run.input.columnCount
\* an early return on a merge, before the end of the traversal, on a grid
\* where the full move has more records
C26_Witness ==
    /\ Ran /\ run.earlyTerminated
    /\ Len(run.moves) = 1 /\ run.moves[1].merged
    /\ Len(run.visited) < getSize(run.input)
    /\ Len(execute(run.input, prepare(operation, FALSE), run.direction, FALSE).moves) > 1

Visit == call.op = "operate"
VisitOccupied == Visit /\ run.found[Len(run.found)] # Empty
\* the visits of the current line before the last one, latest first: how many
\* in a row found their cell empty
RECURSIVE EmptyVisitsBefore(_)
EmptyVisitsBefore(k) ==
    IF k = 0 THEN 0
    ELSE IF run.found[k] # Empty THEN 0
    ELSE IF run.visited[k].isNewRound THEN 1
    ELSE 1 + EmptyVisitsBefore(k - 1)
EmptyVisitsOfLine ==
    IF run.visited[Len(run.visited)].isNewRound THEN 0
    ELSE EmptyVisitsBefore(Len(run.visited) - 1)
\* the cells from p toward the destination edge that are empty in b, up to the
\* nearest tile or the edge
RECURSIVE GapToward(_, _, _, _)
GapToward(b, d, p, n) ==
    LET q == mover(d, p, n + 1)
    IN IF isWithinBound(b, prow(q), pcolumn(q)) /\ ValueAt(b, q) = Empty
       THEN GapToward(b, d, p, n + 1) ELSE n
\* C27 (as stated): when an occupied cell is visited, #emptyCount is the
\* number of consecutive visits of this line, just before this one, that found
\* their cell empty.
C27_Original == VisitOccupied => call.args[2] = EmptyVisitsOfLine
\* C27 (amended): when an occupied cell is visited, #emptyCount is the number
\* of consecutive cells of the line, from the visited cell toward the
\* destination edge, that are empty in the grid as the visit finds it: the
\* cells visited empty and the cells vacated since by tiles of the line that
\* relocated or merged.
C27_CounterIsGap ==
    VisitOccupied => call.args[2] = GapToward(call.before, call.direction, call.slot, 0)
\* a tile visited right after a tile that merged two cells away: no empty
\* cell was visited since, and the counter is 2
C27_Witness ==
    /\ VisitOccupied /\ call.args[2] = 2
    /\ run.found[Len(run.found) - 1] # Empty
    /\ EmptyVisitsOfLine = 0

InLine(b, d, l, p) == IF d \in {UP, DOWN} THEN pcolumn(p) = l ELSE prow(p) = l
\* the grid b with every line of direction d but line l emptied
Isolate(b, d, l) ==
    LET blocks == [i \in 1..getSize(b) |->
                     IF InLine(b, d, l, Point((i - 1) \div b.columnCount, (i - 1) % b.columnCount))
                     THEN b.blocks[i] ELSE Empty]
    IN [b EXCEPT !.blocks = blocks, !.blockCount = Occupied(blocks)]
MovesOfLine(b, d, l, moves) == SelectSeq(moves, LAMBDA m : InLine(b, d, l, m.from))
\* C28: #emptyCount and #isDstMerged are reset at the first cell of every
\* line, so the final contents and the move records of a line depend only on
\* what the line held before the move: they are those of the same move on
\* the grid whose other lines are empty, whatever the other lines hold.
C28_LinesIndependent ==
    /\ (Visit /\ call.args[1]) => (call.args[2] = 0 /\ call.args[3] = FALSE)
    /\ RanToEnd =>
          \A l \in 0..(LineCount(run.input, run.direction) - 1) :
             LET alone == execute(Isolate(run.input, run.direction, l),
                                  prepare(operation, FALSE), run.direction, FALSE)
             IN /\ Line(board, run.direction, l) = Line(alone.board, run.direction, l)
                /\ MovesOfLine(run.input, run.direction, l, run.moves) = alone.moves
\* a line started right after a line that ended on a merge: the second row
\* of a grid of two rows, whose tile relocates
C28_Witness ==
    /\ RanToEnd /\ run.direction = LEFT
    /\ run.input.rowCount = 2 /\ run.input.columnCount = 2
    /\ Len(run.moves) = 2
    /\ run.moves[1].merged /\ prow(run.moves[1].from) = 0
    /\ ~run.moves[2].merged /\ prow(run.moves[2].from) = 1

\* the cell next to the visited one toward the destination edge
Neighbour == mover(call.direction, call.slot, 1)
\* C29: an occupied cell visited with #emptyCount at least 1 always gives a
\* move record; an occupied cell gives none, and keeps its tile, only when
\* #emptyCount is 0 and the adjacent cell toward the destination edge is out
\* of bounds or holds a tile the merger cannot merge with the visited one.
C29_NoMoveOnlyWhenBlocked ==
    VisitOccupied =>
        /\ call.args[2] >= 1 => call.moves # <<>>
        /\ call.moves = <<>> =>
              /\ call.args[2] = 0
              /\ board = call.before
              /\ \/ ~isWithinBound(call.before, prow(Neighbour), pcolumn(Neighbour))
                 \/ /\ ValueAt(call.before, Neighbour) # Empty
                    /\ ~canMerge(ValueAt(call.before, call.slot),
                                 ValueAt(call.before, Neighbour))
\* a tile visited with a gap of one cell behind a tile it cannot merge with:
\* the farthest offset fails and the tile relocates by one cell
C29_Witness ==
    /\ VisitOccupied /\ call.args[2] = 1
    /\ blockAt(call.before, prow(mover(call.direction, call.slot, 2)),
               pcolumn(mover(call.direction, call.slot, 2))) \notin {Empty, Thrown}
    /\ call.moves = <<BlockMove(call.slot, Neighbour, FALSE)>>

\* C30: a move record has merged = true exactly when its destination held a
\* tile as the moving tile arrived; then the destination holds the merger's
\* combination of the two tiles afterwards; when merged = false the
\* destination was empty and holds the moving tile's value afterwards; in
\* both cases the source cell is cleared and no other cell changes.
C30_MergedIffDestinationHeld ==
    (Visit /\ call.moves # <<>>) =>
        LET m == call.moves[1]
            moving == ValueAt(call.before, m.from)
            held == ValueAt(call.before, m.to)
        IN /\ m.from = call.slot /\ moving # Empty
           /\ m.merged <=> held # Empty
           /\ m.merged =>
                 /\ ValueAt(board, m.to) = merge(moving, held)
                 /\ board.blockCount = call.before.blockCount - 1
           /\ ~m.merged =>
                 /\ ValueAt(board, m.to) = moving
                 /\ board.blockCount = call.before.blockCount
           /\ ValueAt(board, m.from) = Empty
           /\ \A p \in Points(board) \ {m.from, m.to} : ValueAt(board, p) = ValueAt(call.before, p)
\* two tiles of value 4 merged across an empty cell
C30_Witness ==
    /\ Visit /\ call.moves # <<>>
    /\ call.moves[1].merged
    /\ call.moves[1].to = mover(call.direction, call.slot, 2)
    /\ ValueAt(board, call.moves[1].to) = 8

\* a direction command that got past the guard and called moveBlocks
Commanded ==
    /\ call.op = "moveInDirection"
    /\ ~call.sessionBefore.rendering /\ ~call.sessionBefore.stopped
\* C31: a direction command whose moveBlocks returns an empty move map
\* spawns no tile and leaves the grid, the score and the stopped flag as they
\* were; it starts no render, so no saveGameStates() follows it.
C31_EmptyMoveNoEffect ==
    (Commanded /\ call.moves = <<>>) =>
        /\ board = call.before
        /\ call.slot = NoPoint
        /\ session.score = call.sessionBefore.score
        /\ session.stopped = call.sessionBefore.stopped
        /\ session.rendering = call.sessionBefore.rendering
        /\ session.renders = call.sessionBefore.renders
\* a command toward the edge the tiles are packed against, on a grid with an
\* empty cell to spawn in
C31_Witness ==
    /\ Commanded /\ call.moves = <<>>
    /\ call.before.blockCount >= 2 /\ call.before.blockCount < getSize(call.before)
    /\ board = call.before

\* the line of the visited cell and the cell's position in it
VisitLine == IF call.direction \in {UP, DOWN} THEN pcolumn(call.slot) ELSE prow(call.slot)
VisitPosition == Dist(call.before, call.direction, call.slot)
\* what the cell at position j of that line holds as the visit begins
Behind(j) == ValueAt(call.before, LinePoint(call.before, call.direction, VisitLine, j))
\* C32: at every visit of the cell at position i of a line, the cells 0..i-1
\* of the line hold their tiles in a run without gaps starting at the
\* destination edge, #emptyCount is the number of empty cells among them, and
\* #isDstMerged is true only when #emptyCount is at least 1.
C32_VisitedPrefixCompact ==
    Visit =>
        /\ \A j, k \in 0..(VisitPosition - 1) : (j < k /\ Behind(j) = Empty) => Behind(k) = Empty
        /\ call.args[2] = Cardinality({j \in 0..(VisitPosition - 1) : Behind(j) = Empty})
        /\ call.args[3] => call.args[2] >= 1
\* the last cell of a line of four tiles is visited after a tile of the line
\* has moved up: two tiles at the edge, and behind them the cell the third
\* tile left
C32_Witness ==
    /\ Visit /\ VisitPosition = 3
    /\ Behind(0) # Empty /\ Behind(1) # Empty /\ Behind(2) = Empty
    /\ call.args[2] = 1
    /\ run.found[Len(run.found) - 1] # Empty
    /\ run.found[Len(run.found)] # Empty

\* C33: with IdenticalBlockMerger, moveBlocks leaves the sum of the tile
\* values of the grid as it was, for every grid and direction; the sum changes
\* only by a spawn, by the value spawned, and by clearBoard, to 0.
C33_SumPreserved ==
    /\ Moved => Total(board) = Total(call.before)
    /\ Probed => Total(board) = Total(call.before)
    /\ call.op \in {"spawnBlock", "spawnBlockWeighted"} =>
          Total(board) = Total(call.before) + (IF call.slot = NoPoint THEN 0 ELSE call.args[1])
    /\ call.op = "clearBoard" => Total(board) = 0
\* a move that merged a pair of 2s and a pair of 4s
C33_Witness ==
    /\ Moved /\ Len(call.moves) >= 2
    /\ \E i, j \in 1..Len(call.moves) :
          /\ call.moves[i].merged /\ ValueAt(board, call.moves[i].to) = 4
          /\ call.moves[j].merged /\ ValueAt(board, call.moves[j].to) = 8
    /\ Total(board) = 12

MergedRecords == {i \in 1..Len(call.moves) : call.moves[i].merged}
\* C34: after moveBlocks the occupied count is the count before the call
\* minus the number of move records with merged = true, and so never more
\* than before; the cells that hold a tile number the same.
C34_CountDropsByMerges ==
    Moved =>
        /\ board.blockCount = call.before.blockCount - Cardinality(MergedRecords)
        /\ Occupied(board.blocks) = Occupied(call.before.blocks) - Cardinality(MergedRecords)
        /\ board.blockCount <= call.before.blockCount
\* four tiles became two
C34_Witness ==
    /\ Moved /\ call.before.blockCount = 4
    /\ Cardinality(MergedRecords) = 2 /\ board.blockCount = 2

\* C35: after a moveBlocks that returns a non-empty move map the grid has an
\* empty cell, so the spawnBlockWeighted the session calls right after it
\* returns a coordinate, whatever block and slot are drawn.
C35_SpawnAfterMove ==
    (Moved /\ call.moves # <<>>) =>
        /\ getEmptySlots(board) # {}
        /\ isSpawnable(board)
        /\ \A r \in spawnBlockWeightedOn(board, SPAWNED_ITEMS, SPAWNED_WEIGHTS) :
              r.slot # NoPoint /\ r.slot \in getEmptySlots(board)
\* a move on a full grid of four cells that merged one pair: one empty cell
C35_Witness ==
    /\ Moved /\ call.moves # <<>>
    /\ call.before.blockCount = 4 /\ getSize(call.before) = 4
    /\ Cardinality(getEmptySlots(board)) = 1

\* the three reflections of a coordinate and of a grid
MirrorColumnsPoint(b, p) == Point(prow(p), b.columnCount - 1 - pcolumn(p))
MirrorRowsPoint(b, p) == Point(b.rowCount - 1 - prow(p), pcolumn(p))
TransposePoint(b, p) == Point(pcolumn(p), prow(p))
MirrorColumns(b) ==
    [b EXCEPT !.blocks = [i \in 1..getSize(b) |->
        ValueAt(b, Point((i - 1) \div b.columnCount,
                         b.columnCount - 1 - ((i - 1) % b.columnCount)))]]
MirrorRows(b) ==
    [b EXCEPT !.blocks = [i \in 1..getSize(b) |->
        ValueAt(b, Point(b.rowCount - 1 - ((i - 1) \div b.columnCount),
                         (i - 1) % b.columnCount))]]
Transpose(b) ==
    [rowCount |-> b.columnCount, columnCount |-> b.rowCount,
     blocks |-> [i \in 1..getSize(b) |->
        ValueAt(b, Point((i - 1) % b.rowCount, (i - 1) \div b.rowCount))],
     blockCount |-> b.blockCount]
\* the outcome of moveBlocks(d) on grid b
MoveOn(b, d) == execute(b, prepare(operation, listener), d, FALSE)
\* the records `moves` with both ends sent through the reflection F of grid b
MapMoves(moves, F(_, _), b) ==
    [i \in 1..Len(moves) |->
        BlockMove(F(b, moves[i].from), F(b, moves[i].to), moves[i].merged)]
\* C36: moveBlocks(RIGHT) is the column mirror of moveBlocks(LEFT) on the
\* column-mirrored grid, moveBlocks(DOWN) the row mirror of moveBlocks(UP) on
\* the row-mirrored grid, and moveBlocks(UP) the transpose of moveBlocks(LEFT)
\* on the transposed grid, for the final grid and for the move records with
\* their coordinates reflected the same way.
C36_DirectionsAreMirrors ==
    /\ (Moved /\ call.direction = RIGHT) =>
          LET other == MoveOn(MirrorColumns(call.before), LEFT)
          IN /\ board = MirrorColumns(other.board)
             /\ call.moves = MapMoves(other.moves, MirrorColumnsPoint, call.before)
    /\ (Moved /\ call.direction = DOWN) =>
          LET other == MoveOn(MirrorRows(call.before), UP)
          IN /\ board = MirrorRows(other.board)
             /\ call.moves = MapMoves(other.moves, MirrorRowsPoint, call.before)
    /\ (Moved /\ call.direction = UP) =>
          LET other == MoveOn(Transpose(call.before), LEFT)
          IN /\ board = Transpose(other.board)
             /\ call.moves = MapMoves(other.moves, TransposePoint, call.before)
\* a move DOWN on a grid of two rows and two columns that is not its own
\* row mirror, with a merge in one column and a relocation in the other
C36_Witness ==
    /\ Moved /\ call.direction = DOWN
    /\ call.before.rowCount = 2 /\ call.before.columnCount = 2
    /\ MirrorRows(call.before) # call.before
    /\ Len(call.moves) = 2 /\ call.moves[1].merged /\ ~call.moves[2].merged

\* an operation object no call has used yet, with the game's listener
FreshOperation == [emptyCount |-> 0, isDstMerged |-> FALSE, listener |-> listener]
\* C37: the final grid, the move map and the listener's notifications of
\* moveBlocks are those of the same call with an operation object nothing has
\* used before: they depend on the grid and the direction only, also right
\* after a tryMoveBlocks that returned early and left #emptyCount and
\* #isDstMerged set.
C37_MoveIgnoresOperationHistory ==
    Moved =>
        LET fresh == executeLoop(ExecState(call.before, FreshOperation),
                                 traverse(call.direction, call.before.rowCount,
                                          call.before.columnCount),
                                 1, call.direction, FALSE)
        IN /\ board = fresh.board
           /\ call.moves = fresh.moves
           /\ call.notified = fresh.notified
\* a move with a merge, made on an operation a probe had left with a counter
\* of 1, the merged flag set and no listener
C37_Witness ==
    /\ Moved
    /\ call.args[1].emptyCount >= 1 /\ call.args[1].isDstMerged /\ ~call.args[1].listener
    /\ Len(call.notified) >= 1

\* C38: on any grid holding at least one tile and at least one empty cell,
\* tryMoveBlocks is true for at least one of the four directions; a probe that
\* answered false on such a grid has another direction that answers true, and
\* a grid with tiles on which all four answer false is full.
HasTileAndEmpty(b) ==
    /\ \E p \in Points(b) : ValueAt(b, p) # Empty
    /\ \E p \in Points(b) : ValueAt(b, p) = Empty
C38_SomeDirectionMoves ==
    /\ HasTileAndEmpty(board) => \E d \in Direction : CanMove(board, d)
    /\ (Probed /\ ~call.would /\ HasTileAndEmpty(call.before))
          => \E d \in Direction \ {call.direction} : CanMove(call.before, d)
    /\ ((\E p \in Points(board) : ValueAt(board, p) # Empty)
          /\ \A d \in Direction : ~CanMove(board, d)) => Full(board)
\* a probe answered false on a grid with a tile and an empty cell
C38_Witness ==
    /\ Probed /\ ~call.would /\ HasTileAndEmpty(call.before)
    /\ \E d \in Direction : CanMove(call.before, d)


\* a direction command that met the guard `if (rendering || stopped) return`
Refused ==
    /\ call.op = "moveInDirection"
    /\ call.sessionBefore.rendering \/ call.sessionBefore.stopped
\* a refused command leaves the grid, the score, the flags and the pending
\* renders (whose ends call saveGameStates) as they were
RefusedNoEffect ==
    Refused => /\ board = call.before
               /\ call.moves = <<>> /\ call.notified = <<>> /\ call.slot = NoPoint
               /\ session = call.sessionBefore
\* C39: a direction command issued while `rendering` or `stopped` is true
\* changes nothing, so at most one move command is being applied or animated
\* at any time: no second moveInDirection is awaiting its renderGame.
C39_Original ==
    /\ RefusedNoEffect
    /\ session.renders.moveInDirection <= 1

\* the coordinates at which a cell that is not removed is displayed, and the
\* occupied coordinates of the grid
Displayed == {display.elements[e].at : e \in {x \in Elements : ~display.elements[x].removed}}
OccupiedSlots == {p \in Points(board) : ValueAt(board, p) # Empty}
Settled == session.started /\ display.renders = <<>>
DisplayedWithoutReset ==
    (Settled /\ display.resets = 0) => Displayed = OccupiedSlots

====
